---- MODULE Spec2Model ----
(***************************************************************************)
(* Particle visualisation (IgesAI/Particles).                              *)
(*                                                                         *)
(* Two pages are modelled: main.js (drift "particle" mode and "galaxy"     *)
(* mode, with the control panel) and main.js.bak (the emitter cloud,       *)
(* class ParticleCloud).  Numbers are fixed point: one unit is Scale       *)
(* ticks, products and quotients truncate toward zero.  A Float32Array     *)
(* entry that holds NaN or +/-Infinity is one of the values NaN, PInf,     *)
(* NInf.                                                                   *)
(***************************************************************************)
EXTENDS Integers, Sequences, FiniteSets, TLC

VARIABLES
    app,            \* which program runs: "main", "cloud", "phys", "gen"
    steps,          \* handler invocations so far (bounded exploration)
    \* ---- main.js: globals --------------------------------------------
    config,         \* const config
    particles,      \* let particles (the BufferGeometry in use)
    blackHole,      \* let blackHole   (TRUE: references a mesh)
    accretionDisk,  \* let accretionDisk
    scene,          \* objects of the THREE.Scene, by kind
    builds,         \* stores built since the last animation frame
    fault,          \* what the last update tripped over, "none" if nothing
    \* ---- main.js.bak: ParticleCloud ----------------------------------
    cloud,          \* the ParticleCloud object
    pointer,        \* mouseDown, isContinuousMode, mouseTarget
    \* ---- main.js: one particle under the update functions ------------
    phys,
    \* ---- main.js: createGalaxySystem and its generators --------------
    gen,
    \* ---- FirstPersonControls.js: the controls and the buttons held ----
    fps,
    \* ---- main.js: the audio button and its getUserMedia() requests ----
    audio,
    \* ---- the page with the spaceship mode: the game ------------------
    game

vars == <<app, steps, config, particles, blackHole, accretionDisk, scene,
          builds, fault, cloud, pointer, phys, gen, fps, audio, game>>

mainVars  == <<config, particles, blackHole, accretionDisk, scene, builds, fault>>
cloudVars == <<cloud, pointer>>

-----------------------------------------------------------------------------
(* Bounds of the exploration *)

MaxSteps == 4

\* Length of the pointer chase: five settings and moves, then the frames
ChaseLength == 64

\* Particles of the emitter cloud (options.count)
CloudCount == 2

-----------------------------------------------------------------------------
(* Fixed-point arithmetic *)

Scale == 10000

Abs(x) == IF x < 0 THEN -x ELSE x
Min(a, b) == IF a < b THEN a ELSE b
Max(a, b) == IF a > b THEN a ELSE b

\* Quotient truncated toward zero (b > 0)
TDiv(a, b) == IF a >= 0 THEN a \div b ELSE -((-a) \div b)

\* Math.min(Math.max(value, min), max)
clamp(value, min, max) == Min(Max(value, min), max)

\* Math.sqrt on a non-negative integer, rounded down (Newton's iteration)
RECURSIVE IsqrtIter(_, _)
IsqrtIter(n, x) ==
    LET y == (x + n \div x) \div 2
    IN  IF y >= x THEN x ELSE IsqrtIter(n, y)

Isqrt(n) == IF n < 2 THEN n ELSE IsqrtIter(n, n)

\* Length of a vector of ticks, in ticks.  Components beyond 20000 ticks are
\* scaled down before they are squared, so that no square leaves 32 bits.
Length(v) ==
    LET m == Max(Abs(v[1]), Max(Abs(v[2]), Abs(v[3])))
        k == IF m > 20000 THEN (m \div 20000) + 1 ELSE 1
        x == TDiv(v[1], k)
        y == TDiv(v[2], k)
        z == TDiv(v[3], k)
    IN  k * Isqrt(x * x + y * y + z * z)

\* Angles are in microradians
HalfPi == 1570796
TwoPi  == 6283185

\* sin on [0, pi/2] in steps of pi/16, in ticks
SinTable == <<0, 1951, 3827, 5556, 7071, 8315, 9239, 9808, 10000>>

\* Math.sin on the first quadrant: the table, linearly interpolated
SinQuarter(f) ==
    LET step == HalfPi \div 8
        i    == Min(f \div step, 7)
        frac == Min(f - i * step, step)
    IN  SinTable[i + 1] + ((SinTable[i + 2] - SinTable[i + 1]) * frac) \div step

\* Math.sin, Math.cos
Sin(x) ==
    LET r == x % TwoPi
        q == r \div HalfPi
        f == r % HalfPi
    IN  CASE q = 0 -> SinQuarter(f)
          [] q = 1 -> SinQuarter(HalfPi - f)
          [] q = 2 -> -SinQuarter(f)
          [] q = 3 -> -SinQuarter(HalfPi - f)
          [] OTHER -> 0

Cos(x) == Sin(x + HalfPi)

\* Math.random(): the k-th draw of the source seeded with seed, in ticks of
\* [0, 1)
Rnd(seed, k) ==
    ((seed + 1) * 7919 + (k % 9973) * 6151 + ((k % 97) * (k % 89)) * 131) % Scale

\* Vectors
VAdd(a, b) == <<a[1] + b[1], a[2] + b[2], a[3] + b[3]>>
VSub(a, b) == <<a[1] - b[1], a[2] - b[2], a[3] - b[3]>>
\* v * num / den
VScale(v, num, den) == <<TDiv(v[1] * num, den), TDiv(v[2] * num, den), TDiv(v[3] * num, den)>>
Zero3 == <<0, 0, 0>>

-----------------------------------------------------------------------------
(* main.js: configuration and control panel *)

DefaultConfig ==
    [ particleCount       |-> 5000,
      particleSize        |-> 10,      \* 0.1,   in 1/100
      speed               |-> 10,      \* 0.01,  in 1/1000
      rotationSpeed       |-> 10,      \* 0.001, in 1/10000
      interactionStrength |-> 50,      \* 0.5,   in 1/100
      audioReactivity     |-> 5,       \* 0.5,   in 1/10
      colorScheme         |-> "cosmic",
      mode                |-> "particle",
      galaxySettings      |->
        [ galaxyRadius      |-> 25,
          spiralArms        |-> 3,
          spiralTightness   |-> 35,    \* 3.5, in 1/10
          rotationFactor    |-> 50,    \* 0.5, in 1/100
          coreSize          |-> 5,
          coreConcentration |-> 20,    \* 2.0, in 1/10
          haloSize          |-> 25,
          haloParticleRatio |-> 3,     \* 0.3, in 1/10
          dustCloudCount    |-> 5,
          enableGravity     |-> TRUE,
          blackHoleMass     |-> 1000,
          stabilityFactor   |-> 98 ],  \* 0.98, in 1/100
      glow                |-> [enabled |-> TRUE, size |-> 15] ]   \* 1.5, in 1/10

ColorSchemes == {"cosmic", "sunset", "ocean", "galaxy", "neon"}

\* createSlider(label, initialValue, min, max, step, onChange): the range
ParticleCountSlider       == [min |-> 1000, max |-> 10000, step |-> 100]
ParticleSizeSlider        == [min |-> 5,    max |-> 30,    step |-> 1]
SpeedSlider               == [min |-> 1,    max |-> 50,    step |-> 1]
RotationSpeedSlider       == [min |-> 0,    max |-> 100,   step |-> 1]
InteractionStrengthSlider == [min |-> 0,    max |-> 100,   step |-> 5]
AudioReactivitySlider     == [min |-> 0,    max |-> 20,    step |-> 1]
GalaxyRadiusSlider        == [min |-> 10,   max |-> 50,    step |-> 1]
SpiralArmsSlider          == [min |-> 2,    max |-> 7,     step |-> 1]
SpiralTightnessSlider     == [min |-> 5,    max |-> 50,    step |-> 1]
RotationFactorSlider      == [min |-> 10,   max |-> 100,   step |-> 5]
BlackHoleMassSlider       == [min |-> 100,  max |-> 2000,  step |-> 100]
GlowSlider                == [min |-> 0,    max |-> 30,    step |-> 1]

\* The values an input event of a range slider is explored with: both ends
SliderInputs(s) == {s.min, s.max}

-----------------------------------------------------------------------------
(* main.js: the particle store (a BufferGeometry) *)

\* geometry.setAttribute(name, new THREE.BufferAttribute(array, itemSize)):
\* an attribute is the length of its Float32Array; generatedWith records the
\* configuration the generator loops read when they filled the arrays.
ParticleAttributes(n) ==
    [ position |-> n * 3, color |-> n * 3, size |-> n, velocity |-> n * 3 ]

GalaxyAttributes(n) ==
    [ position |-> n * 3, color |-> n * 3, size |-> n, velocity |-> n * 3,
      acceleration |-> n * 3, particleType |-> n, mass |-> n ]

GeneratedWith(cfg) ==
    [ particleCount |-> cfg.particleCount,
      particleSize  |-> cfg.particleSize,
      colorScheme   |-> cfg.colorScheme ]

\* createBlackHole(): a new mesh and a new disk are added to the scene and the
\* two globals are overwritten
createBlackHole(sc) ==
    [sc EXCEPT !.blackHoles = @ + 1, !.disks = @ + 1]

\* createParticleSystem(): the old Points object is removed, the black hole
\* objects the globals reference are removed, a new geometry is built from
\* config and added
createParticleSystem(cfg) ==
    /\ particles' = [ kind          |-> "particle",
                      attributes    |-> ParticleAttributes(cfg.particleCount),
                      generatedWith |-> GeneratedWith(cfg) ]
    /\ scene' = [scene EXCEPT
                    !.blackHoles = IF blackHole THEN @ - 1 ELSE @,
                    !.disks      = IF accretionDisk THEN @ - 1 ELSE @]
    /\ blackHole' = FALSE
    /\ accretionDisk' = FALSE
    /\ builds' = builds + 1

\* createGalaxySystem(): the old Points object is removed, a new geometry with
\* the physics attributes is built from config and added, createBlackHole()
createGalaxySystem(cfg) ==
    /\ particles' = [ kind          |-> "galaxy",
                      attributes    |-> GalaxyAttributes(cfg.particleCount),
                      generatedWith |-> GeneratedWith(cfg) ]
    /\ scene' = createBlackHole(scene)
    /\ blackHole' = TRUE
    /\ accretionDisk' = TRUE
    /\ builds' = builds + 1

\* if (config.mode === 'particle') createParticleSystem(); else createGalaxySystem();
Rebuild(cfg) ==
    IF cfg.mode = "particle" THEN createParticleSystem(cfg)
                             ELSE createGalaxySystem(cfg)

-----------------------------------------------------------------------------
(* main.js: event handlers of the control panel *)

\* The steps explored: MaxSteps of any kind, or the ChaseLength steps of the
\* pointer chase
Tick == steps < (IF app = "chase" THEN ChaseLength ELSE MaxSteps) /\ steps' = steps + 1

OnMain == app = "main" /\ Tick /\ UNCHANGED <<app, cloudVars, phys, gen, fps, audio, game>>

\* particleInput 'change': the radio becomes checked
ParticleModeChange ==
    /\ OnMain
    /\ config.mode = "galaxy"
    /\ config' = [config EXCEPT !.mode = "particle"]
    /\ createParticleSystem(config')
    /\ UNCHANGED fault

\* Variant: the handler assigns config.mode and builds nothing
GalaxyModeChangeNoBuild ==
    /\ OnMain
    /\ config.mode = "particle"
    /\ config' = [config EXCEPT !.mode = "galaxy"]
    /\ UNCHANGED <<particles, blackHole, accretionDisk, scene, builds, fault>>

\* galaxyInput 'change'
GalaxyModeChange ==
    /\ OnMain
    /\ config.mode = "particle"
    /\ config' = [config EXCEPT !.mode = "galaxy"]
    /\ createGalaxySystem(config')
    /\ UNCHANGED fault

\* Variant: the handler assigns config.particleCount and builds nothing
ParticleCountInputNoBuild(value) ==
    /\ OnMain
    /\ config' = [config EXCEPT !.particleCount = value]
    /\ UNCHANGED <<particles, blackHole, accretionDisk, scene, builds, fault>>

\* Particle Count slider
ParticleCountInput(value) ==
    /\ OnMain
    /\ config' = [config EXCEPT !.particleCount = value]
    /\ Rebuild(config')
    /\ UNCHANGED fault

\* Particle Size slider
ParticleSizeInput(value) ==
    /\ OnMain
    /\ config' = [config EXCEPT !.particleSize = value]
    /\ Rebuild(config')
    /\ UNCHANGED fault

\* Color scheme select 'change'
ColorSchemeChange(value) ==
    /\ OnMain
    /\ value # config.colorScheme
    /\ config' = [config EXCEPT !.colorScheme = value]
    /\ Rebuild(config')
    /\ UNCHANGED fault

\* Variant: the handler also rebuilds, as the size slider does
SetAndRebuild(newConfig) ==
    /\ OnMain
    /\ config' = newConfig
    /\ Rebuild(config')
    /\ UNCHANGED fault

\* A handler that assigns to config and does nothing else
SetOnly(newConfig) ==
    /\ OnMain
    /\ config' = newConfig
    /\ UNCHANGED <<particles, blackHole, accretionDisk, scene, builds, fault>>

SpeedInput(value) == SetOnly([config EXCEPT !.speed = value])

RotationSpeedInput(value) == SetOnly([config EXCEPT !.rotationSpeed = value])

InteractionStrengthInput(value) ==
    SetOnly([config EXCEPT !.interactionStrength = value])

AudioReactivityInput(value) ==
    SetOnly([config EXCEPT !.audioReactivity = value])

\* The galaxy controls exist only while the panel was built in galaxy mode
RotationFactorInput(value) ==
    /\ app = "main"
    /\ config.mode = "galaxy"
    /\ SetOnly([config EXCEPT !.galaxySettings.rotationFactor = value])

BlackHoleMassInput(value) ==
    /\ app = "main"
    /\ config.mode = "galaxy"
    /\ SetOnly([config EXCEPT !.galaxySettings.blackHoleMass = value])

GravityToggleChange ==
    /\ app = "main"
    /\ config.mode = "galaxy"
    /\ SetOnly([config EXCEPT !.galaxySettings.enableGravity = ~@])

\* Glow slider: config.glow.size and updateGlowEffect() (material only)
GlowInput(value) == SetOnly([config EXCEPT !.glow.size = value])

GalaxyRadiusInput(value) ==
    /\ OnMain
    /\ config.mode = "galaxy"
    /\ config' = [config EXCEPT !.galaxySettings.galaxyRadius = value]
    /\ createGalaxySystem(config')
    /\ UNCHANGED fault

SpiralArmsInput(value) ==
    /\ OnMain
    /\ config.mode = "galaxy"
    /\ config' = [config EXCEPT !.galaxySettings.spiralArms = value]
    /\ createGalaxySystem(config')
    /\ UNCHANGED fault

SpiralTightnessInput(value) ==
    /\ OnMain
    /\ config.mode = "galaxy"
    /\ config' = [config EXCEPT !.galaxySettings.spiralTightness = value]
    /\ createGalaxySystem(config')
    /\ UNCHANGED fault

\* Reset button 'click'
ResetClick ==
    /\ OnMain
    /\ IF config.mode = "particle"
       THEN /\ config' = [config EXCEPT
                    !.particleCount = 1000,
                    !.particleSize = 10,
                    !.colorScheme = "cosmic",
                    !.speed = 10,
                    !.rotationSpeed = 10,
                    !.interactionStrength = 50,
                    !.audioReactivity = 5,
                    !.glow.size = 15]
            /\ createParticleSystem(config')
       ELSE /\ config' = [config EXCEPT
                    !.galaxySettings.galaxyRadius = 25,
                    !.galaxySettings.spiralArms = 3,
                    !.galaxySettings.spiralTightness = 15,
                    !.galaxySettings.rotationFactor = 50,
                    !.galaxySettings.coreSize = 5,
                    !.galaxySettings.coreConcentration = 20,
                    !.galaxySettings.haloSize = 25,
                    !.galaxySettings.haloParticleRatio = 2,
                    !.galaxySettings.dustCloudCount = 5,
                    !.galaxySettings.enableGravity = TRUE,
                    !.galaxySettings.blackHoleMass = 1000,
                    !.galaxySettings.stabilityFactor = 98,
                    !.colorScheme = "cosmic",
                    !.speed = 10,
                    !.rotationSpeed = 10,
                    !.interactionStrength = 50,
                    !.audioReactivity = 5,
                    !.glow.size = 15]
            /\ createGalaxySystem(config')
    /\ UNCHANGED fault

\* The attributes an update function takes the .array of
AttributesRead(mode) ==
    IF mode = "galaxy"
    THEN {"position", "velocity", "acceleration", "particleType", "mass",
          "size", "color"}
    ELSE {"position", "size", "color", "velocity"}

ItemSize(a) == IF a \in {"size", "particleType", "mass"} THEN 1 ELSE 3

\* What the update loop of animate() trips over: an attribute the geometry
\* does not have (a TypeError), or an index at or past the end of an array
UpdateFault(cfg, geometry) ==
    IF \E a \in AttributesRead(cfg.mode) : a \notin DOMAIN geometry.attributes
    THEN "missing attribute"
    ELSE IF \E a \in AttributesRead(cfg.mode) :
                geometry.attributes[a] < cfg.particleCount * ItemSize(a)
         THEN "index past the end"
         ELSE "none"

\* animate(): one frame; the update function is chosen by config.mode
Animate ==
    /\ OnMain
    /\ fault' = UpdateFault(config, particles)
    /\ builds' = 0
    /\ UNCHANGED <<config, particles, blackHole, accretionDisk, scene>>

NextMain ==
    \/ ParticleModeChange
    \/ GalaxyModeChange
    \/ \E v \in SliderInputs(ParticleCountSlider) : ParticleCountInput(v)
    \/ \E v \in SliderInputs(ParticleSizeSlider) : ParticleSizeInput(v)
    \/ \E v \in ColorSchemes : ColorSchemeChange(v)
    \/ \E v \in SliderInputs(SpeedSlider) : SpeedInput(v)
    \/ \E v \in SliderInputs(RotationSpeedSlider) : RotationSpeedInput(v)
    \/ \E v \in SliderInputs(InteractionStrengthSlider) : InteractionStrengthInput(v)
    \/ \E v \in SliderInputs(AudioReactivitySlider) : AudioReactivityInput(v)
    \/ \E v \in SliderInputs(RotationFactorSlider) : RotationFactorInput(v)
    \/ \E v \in SliderInputs(BlackHoleMassSlider) : BlackHoleMassInput(v)
    \/ GravityToggleChange
    \/ \E v \in SliderInputs(GlowSlider) : GlowInput(v)
    \/ \E v \in SliderInputs(GalaxyRadiusSlider) : GalaxyRadiusInput(v)
    \/ \E v \in SliderInputs(SpiralArmsSlider) : SpiralArmsInput(v)
    \/ \E v \in SliderInputs(SpiralTightnessSlider) : SpiralTightnessInput(v)
    \/ ResetClick
    \/ Animate

\* State after init(); animate(): config.mode is 'particle', so
\* createParticleSystem() ran once, and the first frame ran on that store
Idle == [idle |-> TRUE]

InitMain ==
    /\ app = "main"
    /\ steps = 0
    /\ config = DefaultConfig
    /\ particles = [ kind          |-> "particle",
                     attributes    |-> ParticleAttributes(DefaultConfig.particleCount),
                     generatedWith |-> GeneratedWith(DefaultConfig) ]
    /\ blackHole = FALSE
    /\ accretionDisk = FALSE
    /\ scene = [points |-> 1, blackHoles |-> 0, disks |-> 0]
    /\ builds = 0
    /\ fault = UpdateFault(DefaultConfig,
                           [attributes |-> ParticleAttributes(DefaultConfig.particleCount)])
    /\ cloud = Idle
    /\ pointer = Idle
    /\ phys = Idle
    /\ gen = Idle
    /\ fps = Idle
    /\ audio = Idle
    /\ game = Idle


-----------------------------------------------------------------------------
(* main.js.bak: class ParticleCloud *)

\* Colours are <<r, g, b>> with channels 0..255.  colorSchemes[0..2]
CloudSchemes ==
    << <<  <<68, 102, 255>>,  <<255, 102, 170>>,  <<102, 255, 170>>  >>,
       <<  <<255, 0, 204>>,   <<0, 255, 204>>,    <<255, 204, 0>>    >>,
       <<  <<0, 136, 255>>,   <<0, 221, 255>>,    <<0, 51, 170>>     >> >>

\* constructor: the default options (times in ms, lengths in ticks)
DefaultOptions ==
    [ count                 |-> CloudCount,
      particleSize          |-> 1200,     \* 0.12
      particleSizeVariation |-> 500,      \* 0.05
      baseColor             |-> CloudSchemes[1][1],
      secondaryColor        |-> CloudSchemes[1][2],
      tertiaryColor         |-> CloudSchemes[1][3],
      speedFactor           |-> 10,       \* 1.0, in 1/10
      noiseIntensity        |-> 30,       \* 3.0, in 1/10
      noiseTimeScale        |-> 5,        \* 0.5, in 1/10
      particleLifespan      |-> 5000,     \* 5.0 s
      emissionRate          |-> 5,
      turbulence            |-> 5,        \* 0.5, in 1/10
      interactiveForce      |-> 10 ]      \* 0.1, in 1/100

\* new THREE.Color().lerpColors(c1, c2, alpha), alpha in ticks
lerpColors(c1, c2, alpha) ==
    << c1[1] + TDiv((c2[1] - c1[1]) * alpha, Scale),
       c1[2] + TDiv((c2[2] - c1[2]) * alpha, Scale),
       c1[3] + TDiv((c2[3] - c1[3]) * alpha, Scale) >>

\* u * 2 * Math.PI, u in ticks of [0, 1), in microradians
Turn(u) == u * 628 + (u * 3185) \div Scale

\* radius * (sin(phi) cos(theta), sin(phi) sin(theta), cos(phi))
Spherical(radius, theta, phi) ==
    << TDiv(TDiv(radius * Sin(phi), Scale) * Cos(theta), Scale),
       TDiv(TDiv(radius * Sin(phi), Scale) * Sin(theta), Scale),
       TDiv(radius * Cos(phi), Scale) >>

\* Vector3.normalize(), in 1/1000: divideScalar(length() || 1)
Normalize(v) ==
    LET len == Length(v)
    IN  IF len = 0 THEN Zero3
        ELSE <<TDiv(v[1] * 1000, len), TDiv(v[2] * 1000, len), TDiv(v[3] * 1000, len)>>

\* createEmitters(): three emitters, radius and power drawn
createEmitters(c) ==
    [ c EXCEPT
        !.emitters =
            [ e \in 1..3 |->
                LET angle == ((e - 1) * TwoPi) \div 3
                IN  [ position |-> <<15 * Cos(angle), 8 * Sin(angle), 0>>,
                      radius   |-> 20000 + 3 * Rnd(c.seed, c.rng + 2 * (e - 1)),
                      power    |-> 5000 + TDiv(15 * Rnd(c.seed, c.rng + 2 * (e - 1) + 1), 10),
                      angle    |-> angle ] ],
        !.rng = @ + 6 ]

\* initParticle(i, fromEmitter): i is the index from 1, fromEmitter counts
\* from 0 as in the source, -1 for none
initParticle(c, i, fromEmitter) ==
    LET D(j) == Rnd(c.seed, c.rng + j)
        o == c.options
        spawned == fromEmitter >= 0 /\ fromEmitter < Len(c.emitters)
        \* -- from an emitter
        emitter == c.emitters[fromEmitter + 1]
        eOffset == Spherical(TDiv(D(0) * 15, 10), Turn(D(1)), Turn(D(2)))
        ePos    == VAdd(emitter.position, eOffset)
        speed   == 5000 + TDiv(D(3) * emitter.power, Scale)
        dir     == Normalize(VSub(ePos, emitter.position))
        colorIndex == fromEmitter % (3 * o.count)
        eCol    == lerpColors(o.baseColor,
                              IF colorIndex % 2 = 0 THEN o.secondaryColor
                                                    ELSE o.tertiaryColor,
                              D(4))
        \* -- anywhere in a shell around the origin
        rPos == Spherical(50000 + 15 * D(0), Turn(D(1)), Turn(D(2)))
        rVel == << TDiv((D(3) - 5000) * 3, 10), TDiv((D(4) - 5000) * 3, 10),
                   TDiv((D(5) - 5000) * 3, 10) >>
        colorFactor == D(6)
        rCol == IF colorFactor < 3300
                THEN lerpColors(o.baseColor, o.secondaryColor, D(7))
                ELSE IF colorFactor < 6600
                     THEN lerpColors(o.secondaryColor, o.tertiaryColor, D(7))
                     ELSE lerpColors(o.tertiaryColor, o.baseColor, D(7))
        \* -- common tail; b is the number of draws made so far
        b == IF spawned THEN 5 ELSE 8
    IN  [ c EXCEPT
            !.positions[i]     = IF spawned THEN ePos ELSE rPos,
            !.velocities[i]    = IF spawned THEN VScale(dir, speed, 1000) ELSE rVel,
            !.colors[i]        = IF spawned THEN eCol ELSE rCol,
            !.accelerations[i] = Zero3,
            !.sizes[i]         = o.particleSize
                                 + TDiv((D(b) - 5000) * o.particleSizeVariation, Scale),
            !.lifeTimes[i]     = TDiv(o.particleLifespan * (6000 + TDiv(D(b + 1) * 4, 10)), Scale),
            !.startTimes[i]    = IF fromEmitter >= 0
                                 THEN c.time
                                 ELSE c.time - TDiv(D(b + 2) * o.particleLifespan, Scale),
            !.opacities[i]     = 8000 + TDiv(D(IF fromEmitter >= 0 THEN b + 2 ELSE b + 3) * 2, 10),
            !.rng              = @ + (IF fromEmitter >= 0 THEN b + 3 ELSE b + 4) ]

\* initialize(): the arrays, initParticle(i) for every i, then createEmitters()
RECURSIVE InitAll(_, _)
InitAll(c, i) ==
    IF i > c.options.count THEN c ELSE InitAll(initParticle(c, i, -1), i + 1)

\* new ParticleCloud(), with Math.random() seeded by seed
NewParticleCloud(seed) ==
    LET n == DefaultOptions.count
        blank == [ options       |-> DefaultOptions,
                   seed          |-> seed,
                   rng           |-> 0,
                   time          |-> 0,
                   audioLevel    |-> 0,
                   emitters      |-> <<>>,
                   positions     |-> [i \in 1..n |-> Zero3],
                   velocities    |-> [i \in 1..n |-> Zero3],
                   accelerations |-> [i \in 1..n |-> Zero3],
                   colors        |-> [i \in 1..n |-> Zero3],
                   sizes         |-> [i \in 1..n |-> 0],
                   lifeTimes     |-> [i \in 1..n |-> 0],
                   startTimes    |-> [i \in 1..n |-> 0],
                   opacities     |-> [i \in 1..n |-> 0] ]
    IN  createEmitters(InitAll(blank, 1))

\* noise(x, y, z) with x, y in ticks and z = time * noiseTimeScale
noise(c, x, y) ==
    LET t  == c.time * 1000
        s1 == Sin(x * 100 + t)
        s2 == Cos(y * 80 - t)
        s3 == Sin(c.time * 500 * c.options.noiseTimeScale + t \div 2)
    IN  TDiv(TDiv(TDiv(s1 * s2, Scale) * s3, Scale) * c.options.noiseIntensity, 10)

\* The force of the pointer if the sign of interactiveForce were dropped
MouseForceAttractOnly(c, ptr, pos, delta) ==
    IF ~(ptr.mouseDown \/ ptr.isContinuousMode) \/ ~ptr.mouseTarget.finite
    THEN Zero3
    ELSE LET toMouse  == VSub(ptr.mouseTarget.v, pos)
             distance == Length(toMouse)
             influenceRadius == TDiv(20 * ptr.cameraZ, 30)
         IN  IF distance < influenceRadius
             THEN LET force == influenceRadius - distance
                      n == Normalize(toMouse)
                  IN  << TDiv(TDiv(n[1] * force, 1000) * Abs(c.options.interactiveForce) * delta, 100000),
                         TDiv(TDiv(n[2] * force, 1000) * Abs(c.options.interactiveForce) * delta, 100000),
                         TDiv(TDiv(n[3] * force, 1000) * Abs(c.options.interactiveForce) * delta, 100000) >>
             ELSE Zero3

\* The mouse interaction of update(): the velocity change of a particle at pos
MouseForce(c, ptr, pos, delta) ==
    IF ~(ptr.mouseDown \/ ptr.isContinuousMode) \/ ~ptr.mouseTarget.finite
    THEN Zero3
    ELSE LET toMouse  == VSub(ptr.mouseTarget.v, pos)
             distance == Length(toMouse)
             influenceRadius == TDiv(20 * ptr.cameraZ, 30)
         IN  IF distance < influenceRadius
             THEN LET force == influenceRadius - distance
                      n == Normalize(toMouse)
                  IN  << TDiv(TDiv(n[1] * force, 1000) * c.options.interactiveForce * delta, 100000),
                         TDiv(TDiv(n[2] * force, 1000) * c.options.interactiveForce * delta, 100000),
                         TDiv(TDiv(n[3] * force, 1000) * c.options.interactiveForce * delta, 100000) >>
             ELSE Zero3

\* Variant: the age in ms compared with a life time taken as seconds
IsDeadUnits(c, i) == c.time - c.startTimes[i] >= c.lifeTimes[i] * 1000

\* const age = this.time - this.startTimes[i]; if (age >= this.lifeTimes[i])
IsDead(c, i) == c.time - c.startTimes[i] >= c.lifeTimes[i]

\* The body of the particle loop of update(delta) for index i
UpdateParticle(c, ptr, i, delta, audioConnected) ==
    LET age == c.time - c.startTimes[i]
    IN  IF IsDead(c, i)
        THEN LET emitterIndex == (Rnd(c.seed, c.rng) * Len(c.emitters)) \div Scale
             IN  initParticle([c EXCEPT !.rng = @ + 1], i, emitterIndex)
        ELSE
        LET lifeFactor == Scale - TDiv(age * Scale, c.lifeTimes[i])
            p  == c.positions[i]
            v1 == VAdd(c.velocities[i], VScale(c.accelerations[i], delta, 1000))
            turbulence == c.options.turbulence
            n  == << TDiv(noise(c, p[1], p[2]) * turbulence, 10),
                     TDiv(noise(c, p[2], p[3]) * turbulence, 10),
                     TDiv(noise(c, p[3], p[1]) * turbulence, 10) >>
            v2 == VAdd(v1, VScale(n, delta, 1000))
            v3 == VAdd(v2, MouseForce(c, ptr, p, delta))
            v4 == VScale(v3, 99, 100)
            p1 == VAdd(p, VScale(v4, delta * c.options.speedFactor, 10000))
            base == TDiv((c.options.particleSize + TDiv(Sin(age * 2000) * 3, 100)) * lifeFactor, Scale)
            size == IF audioConnected
                    THEN TDiv(base * (Scale + c.audioLevel \div 2), Scale)
                    ELSE base
        IN  [ c EXCEPT
                !.velocities[i] = v4,
                !.positions[i]  = p1,
                !.sizes[i]      = size,
                !.opacities[i]  = IF lifeFactor < 3000 THEN TDiv(lifeFactor * 10, 3) ELSE @ ]

RECURSIVE UpdateLoop(_, _, _, _, _)
UpdateLoop(c, ptr, i, delta, audioConnected) ==
    IF i > c.options.count THEN c
    ELSE UpdateLoop(UpdateParticle(c, ptr, i, delta, audioConnected), ptr, i + 1,
                    delta, audioConnected)

\* The emitters of update(delta): every angle advances, the position follows
MoveEmitters(c, delta) ==
    [ c EXCEPT !.emitters =
        [ e \in 1..Len(c.emitters) |->
            LET angle == c.emitters[e].angle
                         + delta * 200 * (IF (e - 1) % 2 = 0 THEN 1 ELSE -1)
            IN  [ c.emitters[e] EXCEPT
                    !.angle = angle,
                    !.position = <<15 * Cos(angle), 8 * Sin(angle), 5 * Sin(2 * angle)>> ] ] ]

\* ParticleCloud.update(delta); average is analyser.getAverageFrequency()
update(c, ptr, delta, average) ==
    LET c1 == [c EXCEPT !.time = @ + delta]
        c2 == IF ptr.audioConnected
              THEN [c1 EXCEPT !.audioLevel = Min(2 * TDiv(average * Scale, 256), Scale)]
              ELSE c1
    IN  UpdateLoop(MoveEmitters(c2, delta), ptr, 1, delta, ptr.audioConnected)

\* changeColors(baseColor, secondaryColor, tertiaryColor)
changeColors(c, baseColor, secondaryColor, tertiaryColor) ==
    [ c EXCEPT !.options.baseColor = baseColor,
               !.options.secondaryColor = secondaryColor,
               !.options.tertiaryColor = tertiaryColor ]

setSpeed(c, speed) == [c EXCEPT !.options.speedFactor = speed]

setInteractivity(c, force) == [c EXCEPT !.options.interactiveForce = force]

setTurbulence(c, turbulence) == [c EXCEPT !.options.turbulence = turbulence]

setMouseMode(c, isAttractMode) ==
    [c EXCEPT !.options.interactiveForce = IF isAttractMode THEN 10 ELSE -10]

-----------------------------------------------------------------------------
(* main.js.bak: event handlers and the animation loop *)

\* Seeds of Math.random() the cloud is explored with
CloudSeeds == {0, 11, 23}

\* clock.getDelta() in ms: the time since the frame before, a second when the
\* tab comes back from the background
ClockDeltas == {0, 16, 50, 1000}

\* The delta of animate() if the time of the clock were passed on as it is
FrameDeltaNoCap(elapsed) == elapsed

\* const delta = Math.min(clock.getDelta(), 0.05), in ms
FrameDelta(elapsed) == Min(elapsed, 50)

\* The deltas animate() passes to particleCloud.update()
DeltaInputs == { FrameDelta(elapsed) : elapsed \in ClockDeltas }

\* analyser.getAverageFrequency(), 0..255
AverageInputs == {0, 200}

\* Range sliders of createUI(): speed and turbulence in 1/10, force in 1/100
CloudSpeedSlider         == [min |-> 1, max |-> 30, step |-> 1]
CloudTurbulenceSlider    == [min |-> 0, max |-> 20, step |-> 1]
CloudInteractivitySlider == [min |-> 0, max |-> 50, step |-> 1]

\* mouseTarget after onMouseMove: a point of the plane z = 0, or a vector with
\* a NaN component when the ray is parallel to that plane (dir.z = 0)
MouseTargets ==
    { [finite |-> TRUE,  v |-> <<-60000, 30000, 0>>],
      [finite |-> FALSE, v |-> Zero3] }

OnCloud == app \in {"cloud", "chase"} /\ Tick /\ UNCHANGED <<app, mainVars, phys, gen, fps, audio, game>>

\* animate(): particleCloud.update(delta)
CloudAnimate(delta, average) ==
    /\ OnCloud
    /\ cloud' = update(cloud, pointer, delta, average)
    /\ UNCHANGED pointer

\* colorSelect 'change': fired when another option is chosen
ColorSelectChange(k) ==
    /\ OnCloud
    /\ cloud.options.baseColor # CloudSchemes[k][1]
    /\ cloud' = changeColors(cloud, CloudSchemes[k][1], CloudSchemes[k][2],
                             CloudSchemes[k][3])
    /\ UNCHANGED pointer

SpeedSliderInput(value) ==
    /\ OnCloud
    /\ cloud' = setSpeed(cloud, value)
    /\ UNCHANGED pointer

TurbulenceSliderInput(value) ==
    /\ OnCloud
    /\ cloud' = setTurbulence(cloud, value)
    /\ UNCHANGED pointer

InteractivitySliderInput(value) ==
    /\ OnCloud
    /\ cloud' = setInteractivity(cloud, value)
    /\ UNCHANGED pointer

\* mouseModeToggle 'click'
MouseModeClick ==
    /\ OnCloud
    /\ pointer' = [pointer EXCEPT !.isAttractMode = ~@]
    /\ cloud' = setMouseMode(cloud, pointer'.isAttractMode)

\* continuousModeCheckbox 'change'
ContinuousModeChange ==
    /\ OnCloud
    /\ pointer' = [pointer EXCEPT !.isContinuousMode = ~@]
    /\ UNCHANGED cloud

\* onMouseDown / touchstart, onMouseUp / touchend
OnMouseDown ==
    /\ OnCloud
    /\ pointer' = [pointer EXCEPT !.mouseDown = TRUE]
    /\ UNCHANGED cloud

OnMouseUp ==
    /\ OnCloud
    /\ pointer' = [pointer EXCEPT !.mouseDown = FALSE]
    /\ UNCHANGED cloud

\* onMouseMove / touchmove
OnMouseMove(target) ==
    /\ OnCloud
    /\ pointer' = [pointer EXCEPT !.mouseTarget = target]
    /\ UNCHANGED cloud

\* initAudio(): getUserMedia(...).then(...)
AudioStreamGranted ==
    /\ OnCloud
    /\ ~pointer.audioConnected
    /\ pointer' = [pointer EXCEPT !.audioConnected = TRUE]
    /\ UNCHANGED cloud

NextCloud ==
    \/ \E elapsed \in ClockDeltas :
         \E average \in AverageInputs : CloudAnimate(FrameDelta(elapsed), average)
    \/ \E k \in 1..Len(CloudSchemes) : ColorSelectChange(k)
    \/ \E v \in SliderInputs(CloudSpeedSlider) : SpeedSliderInput(v)
    \/ \E v \in SliderInputs(CloudTurbulenceSlider) : TurbulenceSliderInput(v)
    \/ \E v \in SliderInputs(CloudInteractivitySlider) : InteractivitySliderInput(v)
    \/ MouseModeClick
    \/ ContinuousModeChange
    \/ OnMouseDown
    \/ OnMouseUp
    \/ \E t \in MouseTargets : OnMouseMove(t)
    \/ AudioStreamGranted

\* The globals of the page at load; camera.position.z = 30
InitialPointer ==
    [ mouseDown        |-> FALSE,
      isContinuousMode |-> FALSE,
      isAttractMode    |-> TRUE,
      audioConnected   |-> FALSE,
      cameraZ          |-> 300000,
      mouseTarget      |-> [finite |-> TRUE, v |-> Zero3] ]

\* State after the script ran: new ParticleCloud(), createUI(), and the first
\* animate(), whose clock.getDelta() starts the clock and returns 0
InitCloud ==
    /\ app = "cloud"
    /\ steps = 0
    /\ \E seed \in CloudSeeds :
          cloud = update(NewParticleCloud(seed), InitialPointer, 0, 0)
    /\ pointer = InitialPointer
    /\ config = Idle
    /\ particles = Idle
    /\ blackHole = FALSE
    /\ accretionDisk = FALSE
    /\ scene = Idle
    /\ builds = 0
    /\ fault = "none"
    /\ phys = Idle
    /\ gen = Idle
    /\ fps = Idle
    /\ audio = Idle
    /\ game = Idle

\* The pointer chase: a user turns force and speed up and turbulence down,
\* ticks the continuous mode, and leads the pointer outwards in three moves
\* while the frames run at the longest delta.  ChaseTargets are the points of
\* the plane z = 0 the pointer is led to, at a distance of 22, 32 and 48 from
\* the origin; ChaseMoves are the steps at which it moves.
ChaseTargets ==
    << [finite |-> TRUE, v |-> <<-161700, -149160, 0>>],
       [finite |-> TRUE, v |-> <<-235200, -216960, 0>>],
       [finite |-> TRUE, v |-> <<-352800, -325440, 0>>] >>

ChaseMoves == <<4, 30, 41>>

NextChase ==
    \/ steps = 0 /\ InteractivitySliderInput(CloudInteractivitySlider.max)
    \/ steps = 1 /\ SpeedSliderInput(CloudSpeedSlider.max)
    \/ steps = 2 /\ TurbulenceSliderInput(CloudTurbulenceSlider.min)
    \/ steps = 3 /\ ContinuousModeChange
    \/ \E k \in 1..Len(ChaseMoves) : steps = ChaseMoves[k] /\ OnMouseMove(ChaseTargets[k])
    \/ /\ steps > 3
       /\ \A k \in 1..Len(ChaseMoves) : steps # ChaseMoves[k]
       /\ CloudAnimate(50, 0)

InitChase ==
    /\ app = "chase"
    /\ steps = 0
    /\ \E seed \in CloudSeeds :
          cloud = update(NewParticleCloud(seed), InitialPointer, 0, 0)
    /\ pointer = InitialPointer
    /\ config = Idle
    /\ particles = Idle
    /\ blackHole = FALSE
    /\ accretionDisk = FALSE
    /\ scene = Idle
    /\ builds = 0
    /\ fault = "none"
    /\ phys = Idle
    /\ gen = Idle
    /\ fps = Idle
    /\ audio = Idle
    /\ game = Idle

SpecChase == InitChase /\ [][NextChase]_vars

\* Positions the first particle is placed at, at rest and with its life ahead,
\* to explore the force of the pointer: at distance 5 and 13 from the origin
RestPositions == { <<50000, 0, 0>>, <<0, -120000, 50000>> }

\* The cloud with the turbulence slider at 0 and the first particle at rest
InitRest ==
    /\ app = "cloud"
    /\ steps = 0
    /\ \E position \in RestPositions :
          cloud = [ setTurbulence(update(NewParticleCloud(0), InitialPointer, 0, 0), 0)
                      EXCEPT !.positions[1] = position,
                             !.velocities[1] = Zero3,
                             !.startTimes[1] = 0,
                             !.lifeTimes[1] = DefaultOptions.particleLifespan ]
    /\ pointer = InitialPointer
    /\ config = Idle
    /\ particles = Idle
    /\ blackHole = FALSE
    /\ accretionDisk = FALSE
    /\ scene = Idle
    /\ builds = 0
    /\ fault = "none"
    /\ phys = Idle
    /\ gen = Idle
    /\ fps = Idle
    /\ audio = Idle
    /\ game = Idle

SpecRest == InitRest /\ [][NextCloud]_vars

-----------------------------------------------------------------------------
(* Both pages: the page loaded is main.js or main.js.bak *)

Init == InitMain \/ InitCloud

Next == NextMain \/ NextCloud

Spec == Init /\ [][Next]_vars

-----------------------------------------------------------------------------
(* Properties of the two pages, checked under Spec *)

GalaxyOnly == {"acceleration", "particleType", "mass"}

\* C4: at every frame the store matches config.mode: in galaxy mode it has
\* the acceleration, particleType and mass arrays for all particles, in
\* particle mode it has none of them, and no frame has read a missing
\* attribute.
C4_StoreMatchesMode ==
    app = "main" =>
        /\ particles.kind = config.mode
        /\ config.mode = "galaxy" =>
              \A a \in GalaxyOnly :
                 /\ a \in DOMAIN particles.attributes
                 /\ particles.attributes[a] = config.particleCount * ItemSize(a)
        /\ config.mode = "particle" =>
              GalaxyOnly \cap DOMAIN particles.attributes = {}
        /\ fault # "missing attribute"

\* A frame ran on a store that was rebuilt for particle mode after galaxy mode
\* had been on: the black hole of the galaxy is gone, the galaxy arrays too
C4_Witness ==
    /\ app = "main"
    /\ steps >= 3
    /\ config.mode = "particle"
    /\ builds = 0
    /\ fault = "none"
    /\ config.galaxySettings.galaxyRadius # DefaultConfig.galaxySettings.galaxyRadius
    /\ "mass" \notin DOMAIN particles.attributes

\* C5: at every frame every attribute array of the store has exactly
\* config.particleCount entries (times 3 for the vector attributes), and no
\* frame has indexed past the end of an array.
C5_LengthsEqualCount ==
    app = "main" =>
        /\ \A a \in DOMAIN particles.attributes :
              particles.attributes[a] = config.particleCount * ItemSize(a)
        /\ fault # "index past the end"

\* A frame ran after the count slider had been moved to its maximum
C5_Witness ==
    /\ app = "main"
    /\ config.particleCount = ParticleCountSlider.max
    /\ particles.attributes.position = 3 * ParticleCountSlider.max
    /\ builds = 0
    /\ fault = "none"

\* A colour of the gradient initParticle draws from: between two colours of
\* the palette, channel by channel
Between(x, a, b) == Min(a, b) <= x /\ x <= Max(a, b)

InPalette(col, o) ==
    \E pair \in { <<o.baseColor, o.secondaryColor>>,
                  <<o.secondaryColor, o.tertiaryColor>>,
                  <<o.tertiaryColor, o.baseColor>> } :
        \A k \in 1..3 : Between(col[k], pair[1][k], pair[2][k])

\* The store holds only particles generated under the present mode, count,
\* size and colour scheme
StoreFresh ==
    /\ app = "main" =>
          /\ particles.kind = config.mode
          /\ particles.generatedWith = GeneratedWith(config)
    /\ app = "cloud" =>
          \A i \in 1..cloud.options.count : InPalette(cloud.colors[i], cloud.options)

FrameStep ==
    \/ Animate
    \/ \E delta \in DeltaInputs : \E average \in AverageInputs :
          CloudAnimate(delta, average)

\* C6: in each mode, a frame is only ever simulated on a store that was
\* generated anew after the last mode switch or change of count, size or
\* colour scheme: no particle generated under the old values remains.
C6_RebuiltBeforeFrame == [][FrameStep => StoreFresh]_vars

\* A handler of a transient parameter: main.js sliders and toggle, and the
\* setters of the cloud
TransientSetter ==
    \/ \E v \in SliderInputs(SpeedSlider) : SpeedInput(v)
    \/ \E v \in SliderInputs(RotationSpeedSlider) : RotationSpeedInput(v)
    \/ \E v \in SliderInputs(InteractionStrengthSlider) : InteractionStrengthInput(v)
    \/ \E v \in SliderInputs(AudioReactivitySlider) : AudioReactivityInput(v)
    \/ \E v \in SliderInputs(RotationFactorSlider) : RotationFactorInput(v)
    \/ \E v \in SliderInputs(BlackHoleMassSlider) : BlackHoleMassInput(v)
    \/ GravityToggleChange
    \/ \E v \in SliderInputs(CloudSpeedSlider) : SpeedSliderInput(v)
    \/ \E v \in SliderInputs(CloudTurbulenceSlider) : TurbulenceSliderInput(v)
    \/ \E v \in SliderInputs(CloudInteractivitySlider) : InteractivitySliderInput(v)
    \/ MouseModeClick

\* The cloud without its options
CloudStore(c) ==
    [ f \in (DOMAIN c) \ {"options"} |-> c[f] ]

C8_OneBuildPerFrame == builds <= 1

\* Everything the cloud stores for the particle at index i
Particle(c, i) ==
    [ position |-> c.positions[i], velocity |-> c.velocities[i],
      acceleration |-> c.accelerations[i], color |-> c.colors[i],
      size |-> c.sizes[i], lifeTime |-> c.lifeTimes[i],
      startTime |-> c.startTimes[i], opacity |-> c.opacities[i] ]

\* The particle at index i of c2 was initialised from an emitter of c2 at the
\* time of c2: position inside that emitter's radius, velocity away from it at
\* a speed of 0.5 up to 0.5 + power, the rest as initParticle draws it
FreshFromEmitter(c2, i) ==
    LET o == c2.options
        q == Particle(c2, i)
    IN  /\ \E e \in 1..Len(c2.emitters) :
              LET offset == VSub(q.position, c2.emitters[e].position)
              IN  /\ Length(offset) <= c2.emitters[e].radius
                  /\ Length(q.velocity) <= 5000 + c2.emitters[e].power
                  /\ \A k \in 1..3 : q.velocity[k] * offset[k] >= 0
        /\ q.startTime = c2.time
        /\ q.acceleration = Zero3
        /\ InPalette(q.color, o)
        /\ Between(2 * q.size, 2 * o.particleSize - o.particleSizeVariation,
                               2 * o.particleSize + o.particleSizeVariation)
        /\ Between(10 * q.lifeTime, 6 * o.particleLifespan, 10 * o.particleLifespan)
        /\ Between(q.opacity, 8000, Scale)

\* One update(delta) recycled what it had to, given the cloud c before and
\* the cloud c2 after it: every index whose age reached its life time is
\* fresh from an emitter; the count and the array lengths are as before;
\* and every other live particle is where the same update puts it when the
\* recycled index is alive instead
RecycledBy(c, ptr, delta, average, c2) ==
    LET n   == c.options.count
        now == c.time + delta
        Dead(i) == now - c.startTimes[i] >= c.lifeTimes[i]
    IN  \A i \in 1..n :
           Dead(i) =>
              /\ FreshFromEmitter(c2, i)
              /\ c2.options.count = n
              /\ \A f \in {"positions", "velocities", "accelerations", "colors",
                           "sizes", "lifeTimes", "startTimes", "opacities"} :
                    Len(c2[f]) = n
              /\ LET alive == update([c EXCEPT !.startTimes[i] = now], ptr, delta, average)
                 IN  \A j \in (1..n) \ {i} :
                        ~Dead(j) => Particle(c2, j) = Particle(alive, j)

\* C10: whenever update finds a particle whose age time - startTime has
\* reached its lifeTime, that index is initialised again from one of the
\* emitters: position within the emitter's radius of the emitter's present
\* position, startTime the present time, velocity, acceleration, colour, size,
\* lifeTime and opacity reset; the count and the other particles are not
\* touched by the recycle.
C10_RecycleFromEmitter ==
    [][app = "cloud" /\ pointer' = pointer =>
          \A delta \in DeltaInputs :
             cloud'.time = cloud.time + delta =>
                \A average \in AverageInputs :
                   CloudAnimate(delta, average) =>
                      RecycledBy(cloud, pointer, delta, average, cloud')]_vars

\* After some input, a frame found a particle at the end of its life and
\* started it again at an emitter, while another particle lived on
C10_Witness ==
    /\ app = "cloud"
    /\ steps >= 2
    /\ \E i \in 1..cloud.options.count :
          /\ cloud.startTimes[i] = cloud.time
          /\ FreshFromEmitter(cloud, i)
    /\ \E j \in 1..cloud.options.count : cloud.startTimes[j] < cloud.time

-----------------------------------------------------------------------------
(* main.js: createGalaxySystem() and its five generators, on real arrays *)

\* Largest of the small particle counts the generators are explored with
MaxSmallCount == 12

\* a * b for a, b in ticks, in ticks; |b| stays below 200000
Mul(a, b) ==
    LET x == Abs(a)
        y == Abs(b)
        m == (x \div Scale) * y + ((x % Scale) * y) \div Scale
    IN  IF (a < 0) = (b < 0) THEN m ELSE -m

\* u ^ 0.7 for u = 0, 0.1 .. 1, in ticks
Pow07Table == <<0, 1995, 3241, 4305, 5266, 6156, 6994, 7791, 8554, 9289, 10000>>

\* Math.pow(u, e) for u in ticks of [0, 1) and the exponents the generators
\* use, e in 1/10: 2.0 (coreConcentration), 0.7 and 0.5
Pow(u, e) ==
    CASE e = 20 -> (u * u) \div Scale
      [] e = 5  -> Isqrt(u * Scale)
      [] OTHER  -> LET i == u \div 1000
                       f == u % 1000
                   IN  Pow07Table[i + 1]
                       + ((Pow07Table[i + 2] - Pow07Table[i + 1]) * f) \div 1000

\* ln on [1, 2] in steps of 1/4, in ticks
LnTable == <<0, 2231, 4055, 5596, 6931>>

\* Math.log(x) for x > 0 in ticks, in ticks
RECURSIVE Ln(_)
Ln(x) ==
    IF x >= 2 * Scale THEN Ln(x \div 2) + LnTable[5]
    ELSE IF x < Scale THEN Ln(2 * x) - LnTable[5]
    ELSE LET i == (x - Scale) \div 2500
             f == (x - Scale) % 2500
         IN  LnTable[i + 1] + ((LnTable[i + 2] - LnTable[i + 1]) * f) \div 2500

\* acos on [-1, 1] in steps of 1/4, in microradians
AcosTable == <<3141593, 2418858, 2094395, 1823477, 1570796,
               1318116, 1047198, 722734, 0>>

\* Math.acos(t) for t in ticks of [-1, 1]
Acos(t) ==
    LET i == Min((t + Scale) \div 2500, 7)
        f == (t + Scale) - i * 2500
    IN  AcosTable[i + 1] + ((AcosTable[i + 2] - AcosTable[i + 1]) * f) \div 2500

\* Math.sqrt(galaxySettings.blackHoleMass / Math.max(0.1, radius)), in ticks
OrbitalSpeed(blackHoleMass, radius) ==
    100 * Isqrt(((blackHoleMass * 1000000) \div Max(1000, radius)) * 100)

\* new Float32Array(n): every entry is 0
BlankParticle ==
    [ position |-> Zero3, velocity |-> Zero3, color |-> Zero3, size |-> 0,
      particleType |-> 0, mass |-> 0 ]

\* Variant: the loop runs while i <= count
SliceInclusive(startIndex, count) == { startIndex + i : i \in 0..count }

\* for (let i = 0; i < count; i++): the indices startIndex + i
Slice(startIndex, count) == { startIndex + i : i \in 0..(count - 1) }

\* The arrays after a generator loop wrote what(i) at every index of the
\* slice that lies inside them (a Float32Array drops a write past its end)
WriteSlice(a, startIndex, count, what(_)) ==
    [ k \in 1..Len(a.store) |->
        IF (k - 1) \in Slice(startIndex, count)
        THEN what(k - 1 - startIndex)
        ELSE a.store[k] ]

\* createGalaxyCore(..., startIndex, count): six draws a star
createGalaxyCore(a, cfg, startIndex, count) ==
    LET gs == cfg.galaxySettings
        Star(i) ==
            LET D(j)   == Rnd(a.seed, a.rng + 6 * i + j)
                radius == Pow(D(0), gs.coreConcentration) * gs.coreSize
                theta  == Turn(D(1))
                phi    == Turn(D(2)) \div 2 - HalfPi
                orbitalSpeed == OrbitalSpeed(gs.blackHoleMass, radius)
            IN  [ position |-> << Mul(Mul(radius, Cos(theta)), Cos(phi)),
                                  TDiv(Mul(radius, Sin(phi)), 2),
                                  Mul(Mul(radius, Sin(theta)), Cos(phi)) >>,
                  color    |-> <<255, 255, 170>>,
                  size     |-> cfg.particleSize * (Scale + TDiv(D(3) * 15, 10)),
                  velocity |-> << -Mul(orbitalSpeed, Sin(theta)),
                                  TDiv(D(4) - 5000, 100),
                                  Mul(orbitalSpeed, Cos(theta)) >>,
                  particleType |-> 0,
                  mass     |-> 8000 + TDiv(D(5) * 4, 10) ]
    IN  [ arrays |-> [a EXCEPT !.store = WriteSlice(a, startIndex, count, Star),
                               !.rng = @ + 6 * count],
          index  |-> startIndex + count ]

\* createSpiralArms(..., startIndex, count): ten draws a star
createSpiralArms(a, cfg, startIndex, count) ==
    LET gs   == cfg.galaxySettings
        arms == gs.spiralArms
        Star(i) ==
            LET D(j) == Rnd(a.seed, a.rng + 10 * i + j)
                arm  == (D(0) * arms) \div Scale
                radiusBase == gs.coreSize * Scale
                              + Pow(D(1), 7) * (gs.galaxyRadius - gs.coreSize)
                radius == Mul(radiusBase, 8000 + TDiv(D(2) * 4, 10))
                armOffset == (TwoPi \div arms) * arm
                rotationAmount ==
                    TDiv(Ln(radius \div gs.coreSize) * 10000, gs.spiralTightness)
                spreadFactor == 2000 + TDiv(3 * (radius \div gs.galaxyRadius), 10)
                spread == TDiv((D(3) - 5000) * spreadFactor, 100)
                finalTheta == armOffset + rotationAmount + spread
                heightFactor == TDiv(Scale - radius \div gs.galaxyRadius, 10)
                height == TDiv((D(4) - 5000) * heightFactor, Scale) * gs.galaxyRadius
                starColor == IF D(5) < 6000 THEN <<136, 136, 255>>
                             ELSE IF D(5) < 9000 THEN <<255, 255, 136>>
                             ELSE <<255, 136, 102>>
                orbitalSpeed ==
                    TDiv(OrbitalSpeed(gs.blackHoleMass, radius) * gs.rotationFactor, 100)
                radialVelocity == TDiv(Mul(orbitalSpeed, D(8) - 5000) * 5, 100)
            IN  [ position |-> << Mul(radius, Cos(finalTheta)), height,
                                  Mul(radius, Sin(finalTheta)) >>,
                  color    |-> starColor,
                  size     |-> cfg.particleSize * (6000 + TDiv(D(6) * 8, 10)),
                  velocity |-> << -Mul(orbitalSpeed, Sin(finalTheta))
                                     + Mul(radialVelocity, Cos(finalTheta)),
                                  TDiv(D(7) - 5000, 100),
                                  Mul(orbitalSpeed, Cos(finalTheta))
                                     + Mul(radialVelocity, Sin(finalTheta)) >>,
                  particleType |-> 1,
                  mass     |-> 4000 + TDiv(D(9) * 3, 10) ]
    IN  [ arrays |-> [a EXCEPT !.store = WriteSlice(a, startIndex, count, Star),
                               !.rng = @ + 10 * count],
          index  |-> startIndex + count ]

\* createHaloStars(..., startIndex, count): seven draws a star
createHaloStars(a, cfg, startIndex, count) ==
    LET gs == cfg.galaxySettings
        Star(i) ==
            LET D(j)   == Rnd(a.seed, a.rng + 7 * i + j)
                radius == gs.coreSize * Scale + Pow(D(0), 5) * gs.haloSize
                theta  == Turn(D(1))
                phi    == Acos(2 * D(2) - Scale)
                orbitalSpeed == TDiv(OrbitalSpeed(gs.blackHoleMass, radius) * 3, 10)
                randomFactor == Turn(D(4))
            IN  [ position |-> << Mul(Mul(radius, Sin(phi)), Cos(theta)),
                                  Mul(Mul(radius, Sin(phi)), Sin(theta)),
                                  Mul(radius, Cos(phi)) >>,
                  color    |-> <<255, 119, 68>>,
                  size     |-> cfg.particleSize * (3000 + TDiv(D(3) * 4, 10)),
                  velocity |-> << Mul(orbitalSpeed, Sin(randomFactor)),
                                  Mul(orbitalSpeed, Cos(randomFactor)),
                                  Mul(orbitalSpeed, D(5) - 5000) >>,
                  particleType |-> 2,
                  mass     |-> 2000 + TDiv(D(6) * 2, 10) ]
    IN  [ arrays |-> [a EXCEPT !.store = WriteSlice(a, startIndex, count, Star),
                               !.rng = @ + 7 * count],
          index  |-> startIndex + count ]

\* createNebulaClouds(..., startIndex, count): five draws a nebula, then
\* eight draws a particle
createNebulaClouds(a, cfg, startIndex, count) ==
    LET gs == cfg.galaxySettings
        nebulaCount == Min(10, count \div 100)
        \* Math.floor(count / 0) is Infinity, and Math.floor(i / Infinity) is 0
        NebulaIndex(i) == IF nebulaCount = 0 THEN 0
                          ELSE i \div (count \div nebulaCount)
        Nebula(n) ==
            LET D(j) == Rnd(a.seed, a.rng + 5 * n + j)
                arm  == (D(0) * gs.spiralArms) \div Scale
                radiusBase == gs.coreSize * 15000
                              + TDiv((gs.galaxyRadius - gs.coreSize) * 7 * D(1), 10)
                theta == (TwoPi \div gs.spiralArms) * arm
                         + Ln(radiusBase \div gs.coreSize) * 10 * gs.spiralTightness
                colorType == D(3)
            IN  [ center |-> << Mul(radiusBase, Cos(theta)), D(2) - 5000,
                                Mul(radiusBase, Sin(theta)) >>,
                  color  |-> IF colorType < 3000 THEN <<255, 34, 0>>
                             ELSE IF colorType < 6000 THEN <<68, 102, 255>>
                             ELSE IF colorType < 8000 THEN <<0, 255, 170>>
                             ELSE <<170, 34, 255>>,
                  radius |-> Scale + 3 * D(4) ]
        Puff(i) ==
            LET D(j) == Rnd(a.seed, a.rng + 5 * nebulaCount + 8 * i + j)
                neb  == Nebula(NebulaIndex(i))
                df2  == Mul(D(3), D(3))
                offset == << Mul(Mul(neb.radius, D(0) - 5000), df2),
                             TDiv(Mul(Mul(neb.radius, D(1) - 5000), df2), 2),
                             Mul(Mul(neb.radius, D(2) - 5000), df2) >>
                brightness == 7000 + TDiv(D(4) * 3, 10)
                radius == Length(<<neb.center[1], 0, neb.center[3]>>)
                \* Math.sin and Math.cos of Math.atan2(center.z, center.x)
                sinT == IF radius = 0 THEN 0 ELSE TDiv(neb.center[3] * 1000, radius) * 10
                cosT == IF radius = 0 THEN Scale ELSE TDiv(neb.center[1] * 1000, radius) * 10
                orbitalSpeed == TDiv(OrbitalSpeed(gs.blackHoleMass, radius) * 7, 10)
            IN  [ position |-> VAdd(neb.center, offset),
                  color    |-> VScale(neb.color, brightness, Scale),
                  size     |-> cfg.particleSize * (Scale + 2 * D(5)),
                  velocity |-> << -Mul(orbitalSpeed, sinT), TDiv(D(6) - 5000, 100),
                                  Mul(orbitalSpeed, cosT) >>,
                  particleType |-> 3,
                  mass     |-> 100 + TDiv(D(7) * 5, 100) ]
        \* if (nebulaIndex >= nebulaCount) continue;
        written == { i \in 0..(count - 1) : NebulaIndex(i) < nebulaCount }
    IN  [ arrays |->
            [a EXCEPT
               !.store = [ k \in 1..Len(a.store) |->
                             IF (k - 1) \in Slice(startIndex, count)
                                /\ (k - 1 - startIndex) \in written
                             THEN Puff(k - 1 - startIndex)
                             ELSE a.store[k] ],
               !.rng = @ + 5 * nebulaCount + 8 * Cardinality(written)],
          index  |-> startIndex + count ]

\* createDustParticles(..., startIndex, count): ten draws a particle
createDustParticles(a, cfg, startIndex, count) ==
    LET gs == cfg.galaxySettings
        Grain(i) ==
            LET D(j)   == Rnd(a.seed, a.rng + 10 * i + j)
                radius == gs.coreSize * Scale + D(0) * (gs.galaxyRadius - gs.coreSize)
                theta  == Turn(D(1))
                dustBrightness == 1000 + TDiv(D(3), 10)
                Channel(base, d) == TDiv(Mul(base + TDiv(d, 10), dustBrightness) * 255, Scale)
                orbitalSpeed == TDiv(OrbitalSpeed(gs.blackHoleMass, radius) * 8, 10)
            IN  [ position |-> << Mul(radius, Cos(theta)), TDiv(D(2) - 5000, 2),
                                  Mul(radius, Sin(theta)) >>,
                  color    |-> << Channel(3000, 2 * D(4)), Channel(2000, D(5)),
                                  Channel(1000, D(6)) >>,
                  size     |-> cfg.particleSize * (2000 + TDiv(D(7) * 4, 10)),
                  velocity |-> << -Mul(orbitalSpeed, Sin(theta)), TDiv(D(8) - 5000, 200),
                                  Mul(orbitalSpeed, Cos(theta)) >>,
                  particleType |-> 4,
                  mass     |-> 500 + TDiv(D(9), 10) ]
    IN  [ arrays |-> [a EXCEPT !.store = WriteSlice(a, startIndex, count, Grain),
                               !.rng = @ + 10 * count],
          index  |-> startIndex + count ]

\* Variant: the dust count is a tenth like the nebula count, not the rest
GalaxyCountsTenth(totalParticles) ==
    [ core   |-> totalParticles \div 10,
      arm    |-> totalParticles \div 2,
      halo   |-> totalParticles \div 5,
      nebula |-> totalParticles \div 10,
      dust   |-> totalParticles \div 10 ]

\* The five counts of createGalaxySystem(): Math.floor(totalParticles * 0.1),
\* * 0.5, * 0.2, * 0.1, and the rest
GalaxyCounts(totalParticles) ==
    LET coreStarCount == totalParticles \div 10
        armStarCount  == totalParticles \div 2
        haloStarCount == totalParticles \div 5
        nebulaParticleCount == totalParticles \div 10
    IN  [ core   |-> coreStarCount,
          arm    |-> armStarCount,
          halo   |-> haloStarCount,
          nebula |-> nebulaParticleCount,
          dust   |-> totalParticles - coreStarCount - armStarCount
                     - haloStarCount - nebulaParticleCount ]

\* The generator calls of createGalaxySystem(), in order
Populations == <<"core", "arm", "halo", "nebula", "dust">>

Generate(kind, a, cfg, startIndex, count) ==
    CASE kind = "core"   -> createGalaxyCore(a, cfg, startIndex, count)
      [] kind = "arm"    -> createSpiralArms(a, cfg, startIndex, count)
      [] kind = "halo"   -> createHaloStars(a, cfg, startIndex, count)
      [] kind = "nebula" -> createNebulaClouds(a, cfg, startIndex, count)
      [] OTHER           -> createDustParticles(a, cfg, startIndex, count)

\* The particle counts createGalaxySystem() is explored with: the small ones,
\* the least value of the count slider, and the least one whose nebula
\* count (310) its three nebulae do not divide
GenCounts == (0..MaxSmallCount) \cup {1000, 3100}

GenSeeds == {0, 1}

\* What the build before has left behind: nothing at load, the arrays of a
\* galaxy at a rebuild
PreviousBuilds == {"none", "galaxy"}

\* A particle of the arrays of the galaxy built before
StaleParticle ==
    [ position |-> <<10000, 0, -20000>>, velocity |-> <<300, 0, 150>>,
      color |-> <<Scale, Scale, Scale>>, size |-> Scale, particleType |-> 4,
      mass |-> 1000 ]

\* The arrays if the build wrote into the arrays of the build before
AllocateReuse(previous, totalParticles) ==
    [ k \in 1..totalParticles |->
        IF previous = "galaxy" THEN StaleParticle ELSE BlankParticle ]

\* new Float32Array(totalParticles * 3), ...: seven new arrays of zeros
Allocate(previous, totalParticles) ==
    [ k \in 1..totalParticles |-> BlankParticle ]

OnGen == app = "gen" /\ UNCHANGED <<app, steps, mainVars, cloudVars, phys, fps, audio, game>>

\* currentIndex = createX(positions, ..., currentIndex, xCount), for the
\* called-th generator
CallGenerator(kind) ==
    /\ OnGen
    /\ gen.called < Len(Populations)
    /\ kind = Populations[gen.called + 1]
    /\ LET r == Generate(kind, gen.arrays, gen.config, gen.currentIndex, gen.counts[kind])
       IN  gen' = [gen EXCEPT !.arrays = r.arrays,
                              !.currentIndex = r.index,
                              !.called = @ + 1]

CallGalaxyCore == CallGenerator("core")
CallSpiralArms == CallGenerator("arm")
CallHaloStars == CallGenerator("halo")
CallNebulaClouds == CallGenerator("nebula")
CallDustParticles == CallGenerator("dust")

NextGen ==
    \/ CallGalaxyCore
    \/ CallSpiralArms
    \/ CallHaloStars
    \/ CallNebulaClouds
    \/ CallDustParticles

\* createGalaxySystem() up to let currentIndex = 0: the counts are computed
\* and the arrays allocated
InitGen ==
    /\ app = "gen"
    /\ steps = 0
    /\ \E totalParticles \in GenCounts, seed \in GenSeeds, previous \in PreviousBuilds :
          gen = [ config |-> [DefaultConfig EXCEPT !.mode = "galaxy",
                                                   !.particleCount = totalParticles],
                  previous |-> previous,
                  counts |-> GalaxyCounts(totalParticles),
                  arrays |-> [ store |-> Allocate(previous, totalParticles),
                               seed  |-> seed,
                               rng   |-> 0 ],
                  currentIndex |-> 0,
                  called |-> 0 ]
    /\ config = Idle
    /\ particles = Idle
    /\ blackHole = FALSE
    /\ accretionDisk = FALSE
    /\ scene = Idle
    /\ builds = 0
    /\ fault = "none"
    /\ cloud = Idle
    /\ pointer = Idle
    /\ phys = Idle
    /\ fps = Idle
    /\ audio = Idle
    /\ game = Idle

SpecGen == InitGen /\ [][NextGen]_vars

-----------------------------------------------------------------------------
(* Properties of createGalaxySystem(), checked under SpecGen *)

RECURSIVE CountsBefore(_, _)
CountsBefore(counts, called) ==
    IF called = 0 THEN 0
    ELSE CountsBefore(counts, called - 1) + counts[Populations[called]]

\* C3: for every particle count N the core, arm, halo, nebula and dust
\* counts are each non-negative and sum to exactly N, and the five generator
\* calls take currentIndex from 0 to exactly N.
C3_CountsSumToTotal ==
    app = "gen" =>
        LET totalParticles == gen.config.particleCount
        IN  /\ \A kind \in DOMAIN gen.counts : gen.counts[kind] >= 0
            /\ CountsBefore(gen.counts, Len(Populations)) = totalParticles
            /\ gen.currentIndex = CountsBefore(gen.counts, gen.called)
            /\ gen.called = 0 => gen.currentIndex = 0
            /\ gen.called = Len(Populations) => gen.currentIndex = totalParticles

\* All five generators ran for a count no floor divides evenly
C3_Witness ==
    /\ app = "gen"
    /\ gen.called = Len(Populations)
    /\ gen.config.particleCount = 7
    /\ gen.counts.dust = 3
    /\ gen.currentIndex = 7

\* C9: a generator called with startIndex and count returns startIndex +
\* count and writes no entry of a particle outside the indices startIndex up
\* to startIndex + count - 1.
C9_GeneratorKeepsToSlice ==
    [][app = "gen" /\ gen'.called = gen.called + 1 =>
          LET kind       == Populations[gen'.called]
              startIndex == gen.currentIndex
              count      == gen.counts[kind]
              before     == gen.arrays.store
              after      == gen'.arrays.store
          IN  /\ gen'.currentIndex = startIndex + count
              /\ Len(after) = Len(before)
              /\ \A k \in 1..Len(before) :
                    (k - 1 < startIndex \/ k - 1 >= startIndex + count) =>
                        after[k] = before[k]]_vars

\* The nebula generator filled its slice behind the halo stars and the dust
\* slice behind it is still blank
C9_Witness ==
    /\ app = "gen"
    /\ gen.called = 4
    /\ gen.config.particleCount = 1000
    /\ gen.arrays.store[gen.currentIndex].particleType = 3
    /\ gen.arrays.store[gen.currentIndex - gen.counts.nebula].particleType = 2
    /\ gen.arrays.store[gen.currentIndex + 1] = BlankParticle

-----------------------------------------------------------------------------
(* main.js: the two update functions on one particle of the store *)

\* The IEEE 754 values a Float32Array entry holds besides the finite ones
PInf == 1073741824
NInf == -1073741824
NaN  == 1073741825

IsFinite(x) == x \notin {NaN, PInf, NInf}

\* isNaN(x)
isNaN(x) == x = NaN

\* a + b
XAdd(a, b) ==
    IF a = NaN \/ b = NaN THEN NaN
    ELSE IF ~IsFinite(a) THEN (IF ~IsFinite(b) /\ b # a THEN NaN ELSE a)
    ELSE IF ~IsFinite(b) THEN b
    ELSE a + b

\* a * (num / den) for a finite factor num / den, den > 0
XScale(a, num, den) ==
    IF a = NaN THEN NaN
    ELSE IF ~IsFinite(a)
         THEN (IF num = 0 THEN NaN
               ELSE IF (num > 0) = (a = PInf) THEN PInf ELSE NInf)
         ELSE TDiv(a * num, den)

\* a * b, both in ticks, |b| at most one unit when a is finite
XMul(a, b) ==
    IF a = NaN \/ b = NaN THEN NaN
    ELSE IF ~IsFinite(a) \/ ~IsFinite(b)
         THEN (IF a = 0 \/ b = 0 THEN NaN
               ELSE IF (a > 0) = (b > 0) THEN PInf ELSE NInf)
         ELSE Mul(a, b)

\* a / b for integers a and b, in ticks: x / 0 is an infinity, 0 / 0 is NaN
XDiv(a, b) ==
    IF b = 0 THEN (IF a = 0 THEN NaN ELSE IF a > 0 THEN PInf ELSE NInf)
    ELSE IF b > 0 THEN TDiv(a * Scale, b) ELSE -TDiv(a * Scale, -b)

\* Math.sqrt(x * x + y * y + z * z)
XLength(v) ==
    IF \E k \in 1..3 : v[k] = NaN THEN NaN
    ELSE IF \E k \in 1..3 : ~IsFinite(v[k]) THEN PInf
    ELSE Length(v)

\* Variant: the containment is left out
KeepWithinBoundsNone(p) == p

\* Containment of updateParticleEffects(): a position farther than maxDist = 50
\* from the origin is scaled back to that distance
KeepWithinBounds(p) ==
    LET maxDist == 50 * Scale
        dist == XLength(p)
        \* dist > maxDist is false for NaN; maxDist / Infinity is 0
        scale == IF dist = PInf THEN 0 ELSE TDiv(maxDist * 1000, dist) * 10
    IN  IF dist # NaN /\ (dist = PInf \/ dist > maxDist)
        THEN << XMul(p[1], scale), XMul(p[2], scale), XMul(p[3], scale) >>
        ELSE p

\* The audio branches if they were taken whatever the state of the audio
AudioAppliesAlways(e) == TRUE

\* if (isAudioActive && analyser), if (isAudioActive && dataArray &&
\* dataArray.length > 0): analyser and dataArray are created together
AudioApplies(e) == e.isAudioActive /\ e.analyser

\* The body of the loop of updateParticleEffects() for the particle q with
\* index q.index.  e holds the globals (mouseX, mouseY, windowHalfX,
\* windowHalfY, isAudioActive) and cfg the configuration; level is the byte
\* in every bin of dataArray, now is Date.now() in ms, draws are the values
\* of Math.random()
ParticleEffects(q, e, cfg, level, now, draws) ==
    LET audioFactor  == Scale + TDiv(TDiv(level * Scale, 128) * cfg.audioReactivity, 10)
        audioImpulse == TDiv(audioFactor * cfg.audioReactivity * 3, 1000)
        size == IF AudioApplies(e)
                THEN cfg.particleSize * (5000 + audioFactor)
                ELSE cfg.particleSize * (8000 + TDiv(draws[1] * 4, 10))
        v0 == IF AudioApplies(e)
              THEN [ k \in 1..3 |->
                       XAdd(q.velocity[k], Mul(audioImpulse, draws[k] - 5000)) ]
              ELSE q.velocity
        pulseAmount == TDiv(Sin(now * level * 10) * 3, 10) + 7000
        color == IF AudioApplies(e) /\ q.index % 5 = 0
                 THEN [ k \in 1..3 |-> Mul(q.color[k], pulseAmount) ]
                 ELSE q.color
        angle == q.index * 1000000 + now * 1000
        v1 == << XAdd(v0[1], TDiv(Sin(angle) * cfg.speed, 100000)),
                 XAdd(v0[2], TDiv(Cos(angle) * cfg.speed, 100000)),
                 XAdd(v0[3], TDiv(Sin(angle) * cfg.speed, 200000)) >>
        mouseXOffset == XDiv(e.mouseX - e.windowHalfX, e.windowHalfX)
        mouseYOffset == XDiv(e.mouseY - e.windowHalfY, e.windowHalfY)
        v2 == << XAdd(v1[1], XScale(mouseXOffset, cfg.interactionStrength, 100000)),
                 XAdd(v1[2], XScale(mouseYOffset, -cfg.interactionStrength, 100000)),
                 v1[3] >>
        v3 == [ k \in 1..3 |-> XScale(v2[k], 98, 100) ]
        p1 == [ k \in 1..3 |-> XAdd(q.position[k], v3[k]) ]
        p2 == KeepWithinBounds(<<p1[1], p1[2], p1[3]>>)
    IN  [ q EXCEPT
            !.size     = size,
            !.color    = color,
            !.position = [ k \in 1..3 |-> IF isNaN(p2[k]) THEN 0 ELSE p2[k] ],
            !.velocity = [ k \in 1..3 |-> IF isNaN(v3[k]) THEN 0 ELSE v3[k] ] ]

\* a * b / c for c > 0 below 200000 and |b| at most one unit
MulDiv(a, b, c) ==
    LET x == Abs(a)
        y == Abs(b)
        m == (x \div c) * y + ((x % c) * y) \div c
    IN  IF (a < 0) = (b < 0) THEN m ELSE -m

\* d * d for a length d in ticks, in ticks
Sq(d) ==
    LET q == d \div Scale
        r == d % Scale
    IN  q * q * Scale + 2 * q * r + (r * r) \div Scale

\* v.normalize() for a vector of ticks, in ticks
Unit(v) ==
    LET n == Normalize(v) IN <<n[1] * 10, n[2] * 10, n[3] * 10>>

\* The vector v of ticks multiplied by the number f of ticks
VMul(f, v) == <<Mul(f, v[1]), Mul(f, v[2]), Mul(f, v[3])>>

\* Variant: the speed limit is left out
LimitVelocityNone(v) == v

\* if (currentVelocity > maxVelocity) velocities *= maxVelocity / currentVelocity
LimitVelocity(v) ==
    LET maxVelocity == 2 * Scale
        currentVelocity == Length(v)
    IN  IF currentVelocity > maxVelocity
        THEN LET scale == TDiv(maxVelocity * Scale, currentVelocity)
             IN  <<Mul(v[1], scale), Mul(v[2], scale), Mul(v[3], scale)>>
        ELSE v

\* lengthSq() > 0.000001: longer than 0.001
farEnough(v) == Length(v) > 10

\* A particle's position as updateGalaxyPhysics() reads it: NaN is read as 0
SafePosition(q) ==
    << IF isNaN(q.position[1]) THEN 0 ELSE q.position[1],
       IF isNaN(q.position[2]) THEN 0 ELSE q.position[2],
       IF isNaN(q.position[3]) THEN 0 ELSE q.position[3] >>

\* Variant: no gravity
GravityForceNone(q, cfg, position) == Zero3

\* The force of the black hole on q, divided by the mass of q
GravityForce(q, cfg, position) ==
    LET gs   == cfg.galaxySettings
        mass == IF q.mass = 0 \/ isNaN(q.mass) THEN Scale ELSE q.mass
        toCenter == <<-position[1], -position[2], -position[3]>>
        \* gravityConstant * blackHoleMass * mass / max(0.01, dist * dist)
        forceMagnitude ==
            TDiv(TDiv(gs.blackHoleMass * mass, 100) * 1000,
                 Max(100, Sq(Length(position)))) * 10
        forceFactor == MulDiv(forceMagnitude, Scale, Max(1000, mass))
    IN  IF gs.enableGravity /\ farEnough(toCenter)
        THEN VMul(forceFactor, Unit(toCenter))
        ELSE Zero3

\* The force of the pressed pointer on a particle nearer than 10
MouseAttraction(e, cfg, mousePosWorld, position) ==
    LET toMouse == VSub(mousePosWorld.v, position)
        distToMouse == Length(toMouse)
    IN  IF e.mouseDown /\ mousePosWorld.finite
           /\ distToMouse < 10 * Scale /\ farEnough(toMouse)
        \* 0.01 * interactionStrength / max(0.1, distToMouse)
        THEN VMul(TDiv(cfg.interactionStrength * Scale, Max(1000, distToMouse)),
                  Unit(toMouse))
        ELSE Zero3

\* The pull back towards the centre beyond 5 * galaxyRadius, added to the
\* velocity after the speed limit
Containment(cfg, position, v) ==
    LET maxRadius == cfg.galaxySettings.galaxyRadius * 5 * Scale
        pullFactor == 100
        toCenter == <<-position[1], -position[2], -position[3]>>
    IN  IF Length(position) > maxRadius /\ farEnough(toCenter)
        THEN VAdd(v, VMul(pullFactor, Unit(toCenter)))
        ELSE v

\* The velocity after the acceleration of one frame (dt = 0.016, at most 0.1
\* a component) and the damping by stabilityFactor
Accelerate(q, cfg, acceleration) ==
    LET maxAccel == 1000
        \* clamp(a * dt, -maxAccel, maxAccel) in thousandths of a tick
        step(k) == clamp(acceleration[k], -TDiv(maxAccel * 1000, 16),
                         TDiv(maxAccel * 1000, 16)) * 16
        \* rounded once, after the damping
        damp(x) == MulDiv(x, cfg.galaxySettings.stabilityFactor, 100000)
    IN  << damp(q.velocity[1] * 1000 + step(1)), damp(q.velocity[2] * 1000 + step(2)),
           damp(q.velocity[3] * 1000 + step(3)) >>

\* The particle if the mass the frame falls back on were written to masses
MassWritten(q) == [q EXCEPT !.mass = IF @ = 0 \/ isNaN(@) THEN Scale ELSE @]

\* const particleType = particleTypes[i]; const mass = masses[i] || 1: the
\* frame reads particleType, mass, size and color and writes none of them
ReadOnly(q) == q

\* The particle written back: position moved by the damped velocity, velocity
\* limited and contained, NaN written as 0
Integrate(q, cfg, position, acceleration, v) ==
    LET Safe(x) == IF isNaN(x) THEN 0 ELSE x
    IN  [ ReadOnly(q) EXCEPT
            !.position     = << Safe(position[1] + TDiv(v[1] * 16, 1000)),
                                Safe(position[2] + TDiv(v[2] * 16, 1000)),
                                Safe(position[3] + TDiv(v[3] * 16, 1000)) >>,
            !.velocity     = [ k \in 1..3 |->
                                 Safe(Containment(cfg, position, LimitVelocity(v))[k]) ],
            !.acceleration = << Safe(acceleration[1]), Safe(acceleration[2]),
                                Safe(acceleration[3]) >> ]

\* The acceleration the forces would be added to if the frame did not reset it
KeepAcceleration(q) == q.acceleration

\* accelerations[i3] = 0; accelerations[i3 + 1] = 0; accelerations[i3 + 2] = 0
ResetAcceleration(q) == Zero3

\* The body of the loop of updateGalaxyPhysics() for the particle q.  e holds
\* the globals, cfg the configuration; mousePosWorld is the pointer projected
\* onto the plane z = 0, [finite |-> FALSE] when the projection is not a point
GalaxyPhysics(q, e, cfg, mousePosWorld) ==
    CHOOSE r \in UNION
        { { Integrate(q, cfg, position, acceleration,
                      Accelerate(q, cfg, acceleration)) :
              acceleration \in
                  { VAdd(VAdd(ResetAcceleration(q), GravityForce(q, cfg, position)),
                         MouseAttraction(e, cfg, mousePosWorld, position)) } } :
            position \in {SafePosition(q)} } : TRUE

\* A particle as createParticleSystem() makes it: on the sphere of radius 30,
\* with a small velocity
DriftParticle(seed, i) ==
    LET D(j)  == Rnd(seed, 8 * i + j)
        theta == Turn(D(0))
        phi   == Acos(2 * D(1) - Scale)
    IN  [ index    |-> i,
          position |-> << Mul(Mul(30 * Scale, Sin(phi)), Cos(theta)),
                          Mul(Mul(30 * Scale, Sin(phi)), Sin(theta)),
                          Mul(30 * Scale, Cos(phi)) >>,
          velocity |-> << TDiv(D(2) - 5000, 100), TDiv(D(3) - 5000, 100),
                          TDiv(D(4) - 5000, 100) >>,
          color    |-> <<0, Scale, Scale>>,
          size     |-> DefaultConfig.particleSize * (8000 + TDiv(D(6) * 4, 10)) ]

\* What updateGalaxyPhysics() reads of a particle of the arrays
Stored(g, i) ==
    [ index |-> i, position |-> g.position, velocity |-> g.velocity,
      acceleration |-> Zero3, color |-> g.color, size |-> g.size,
      particleType |-> g.particleType, mass |-> g.mass ]

\* Particle i (from 0) of a population of count particles that its generator
\* has written
GalaxyParticle(seed, kind, count, i) ==
    LET cfg == [DefaultConfig EXCEPT !.mode = "galaxy"]
        r   == Generate(kind, [ store |-> [k \in 1..count |-> BlankParticle],
                                seed |-> seed, rng |-> 0 ], cfg, 0, count)
    IN  Stored(r.arrays.store[i + 1], i)

\* A particle the pointer has drawn out of the galaxy, beyond 5 * galaxyRadius,
\* and that the containment pulls back
DrawnOutParticle ==
    [ index |-> 0, position |-> <<1300000, 0, 0>>, velocity |-> <<-4900, 0, 0>>,
      acceleration |-> Zero3, color |-> <<255, 119, 68>>, size |-> 50000,
      particleType |-> 2, mass |-> 3000 ]

\* Particle count of the populations the particles are taken from
PhysCount == 100

PhysSeeds == {0, 1}

\* What one frame reads from the outside: the level in dataArray, Date.now()
\* and the draws of Math.random()
FrameInputs ==
    { [level |-> 0,   now |-> 0,    draws |-> <<5000, 5000, 5000>>],
      [level |-> 255, now |-> 1571, draws |-> <<9999, 0, 9999>>] }

\* The pointer on the plane z = 0 in updateGalaxyPhysics()
WorldPoints == { <<20000, 0, 0>>, <<1250000, 30000, 0>> }

\* clientX, clientY of a mouse event; innerWidth, innerHeight after a resize
MousePositions == { <<100, 300>>, <<800, 0>> }
WindowSizes == { <<800, 600>>, <<0, 600>> }

OnPhys == app = "phys" /\ Tick /\ UNCHANGED <<app, mainVars, cloudVars, gen, fps, audio, game>>

\* animate() in particle mode
UpdateParticleEffects(in) ==
    /\ OnPhys
    /\ phys.cfg.mode = "particle"
    /\ phys' = [phys EXCEPT !.q = ParticleEffects(phys.q, phys.e, phys.cfg,
                                                  in.level, in.now, in.draws),
                            !.frames = @ + 1]

\* animate() in galaxy mode; the projection of the pointer is a point only
\* when neither half of the window size is 0
UpdateGalaxyPhysics(point) ==
    /\ OnPhys
    /\ phys.cfg.mode = "galaxy"
    /\ LET mousePosWorld ==
               [ finite |-> phys.e.windowHalfX # 0 /\ phys.e.windowHalfY # 0,
                 v |-> point ]
       IN  phys' = [phys EXCEPT !.q = GalaxyPhysics(phys.q, phys.e, phys.cfg,
                                                    mousePosWorld),
                                !.frames = @ + 1]

onDocumentMouseMove(pos) ==
    /\ OnPhys
    /\ phys' = [phys EXCEPT !.e.mouseX = pos[1], !.e.mouseY = pos[2]]

onDocumentMouseDown ==
    /\ OnPhys
    /\ phys' = [phys EXCEPT !.e.mouseDown = TRUE]

onDocumentMouseUp ==
    /\ OnPhys
    /\ phys' = [phys EXCEPT !.e.mouseDown = FALSE]

onWindowResize(size) ==
    /\ OnPhys
    /\ phys' = [phys EXCEPT !.e.windowHalfX = size[1] \div 2,
                            !.e.windowHalfY = size[2] \div 2]

\* The audio button: the first click creates analyser and dataArray; while
\* the audio is off, getUserMedia() is asked and isAudioActive is set if the
\* stream is granted; while it is on, it is switched off
AudioButtonClick(granted) ==
    /\ OnPhys
    /\ phys.cfg.mode = "particle"
    /\ phys' = [phys EXCEPT !.e.analyser = TRUE,
                            !.e.isAudioActive = IF @ THEN FALSE ELSE granted]

\* The gravity checkbox of the galaxy controls
PhysGravityToggle ==
    /\ OnPhys
    /\ phys.cfg.mode = "galaxy"
    /\ phys' = [phys EXCEPT !.cfg.galaxySettings.enableGravity = ~@]

\* The interaction strength slider, shown in both modes
PhysInteractionStrengthInput(value) ==
    /\ OnPhys
    /\ phys' = [phys EXCEPT !.cfg.interactionStrength = value]

\* The black hole mass slider of the galaxy controls
PhysBlackHoleMassInput(value) ==
    /\ OnPhys
    /\ phys.cfg.mode = "galaxy"
    /\ phys' = [phys EXCEPT !.cfg.galaxySettings.blackHoleMass = value]

NextPhys ==
    \/ \E in \in FrameInputs : UpdateParticleEffects(in)
    \/ \E point \in WorldPoints : UpdateGalaxyPhysics(point)
    \/ \E pos \in MousePositions : onDocumentMouseMove(pos)
    \/ onDocumentMouseDown
    \/ onDocumentMouseUp
    \/ \E size \in WindowSizes : onWindowResize(size)
    \/ \E granted \in BOOLEAN : AudioButtonClick(granted)
    \/ PhysGravityToggle
    \/ \E value \in SliderInputs(InteractionStrengthSlider) :
          PhysInteractionStrengthInput(value)
    \/ \E value \in SliderInputs(BlackHoleMassSlider) : PhysBlackHoleMassInput(value)

\* The globals at load, in a window of 800 x 600
InitialGlobals ==
    [ mouseX |-> 0, mouseY |-> 0, windowHalfX |-> 400, windowHalfY |-> 300,
      mouseDown |-> FALSE, isAudioActive |-> FALSE, analyser |-> FALSE ]

\* One particle of a store createParticleSystem() or createGalaxySystem() has
\* just built, or one the pointer has drawn out of the galaxy; frames counts
\* the frames since
InitPhys ==
    /\ app = "phys"
    /\ steps = 0
    /\ \/ \E seed \in PhysSeeds, i \in 0..1 :
            phys = [ q |-> DriftParticle(seed, i), e |-> InitialGlobals, frames |-> 0,
                     cfg |-> DefaultConfig ]
       \/ \E seed \in PhysSeeds, kind \in {"core", "arm", "halo", "nebula", "dust"} :
            phys = [ q |-> GalaxyParticle(seed, kind, PhysCount, PhysCount - 1),
                     e |-> InitialGlobals, frames |-> 0,
                     cfg |-> [DefaultConfig EXCEPT !.mode = "galaxy"] ]
       \* a particle createNebulaClouds() has skipped
       \/ phys = [ q |-> Stored(BlankParticle, 0), e |-> InitialGlobals, frames |-> 0,
                   cfg |-> [DefaultConfig EXCEPT !.mode = "galaxy"] ]
       \/ phys = [ q |-> DrawnOutParticle, e |-> InitialGlobals, frames |-> 0,
                   cfg |-> [DefaultConfig EXCEPT !.mode = "galaxy"] ]
    /\ config = Idle
    /\ particles = Idle
    /\ blackHole = FALSE
    /\ accretionDisk = FALSE
    /\ scene = Idle
    /\ builds = 0
    /\ fault = "none"
    /\ cloud = Idle
    /\ pointer = Idle
    /\ gen = Idle
    /\ fps = Idle
    /\ audio = Idle
    /\ game = Idle

SpecPhys == InitPhys /\ [][NextPhys]_vars

\* Positions and velocities a particle is placed with to explore one update
\* as a function: at distance 1000, 50, 10, 0.002 and 0 from the origin; at
\* rest, drifting and at a speed of 100
PlacedFar == { <<10000000, 0, 0>> }
PlacedNear == { <<100000, 0, 0>>, <<0, -60000, 80000>>, <<20, 0, 0>> }
PlacedPositions == PlacedFar \cup PlacedNear \cup { <<300000, 400000, 0>>, Zero3 }
PlacedVelocities == { Zero3, <<-50, 20, 0>>, <<1000000, 0, 0>> }

\* The least and the greatest mass of each generator: nebula 0.01 and 0.06,
\* dust 0.15, halo 0.4, core 1.2
PlacedMasses == { 100, 600, 1500, 4000, 12000 }

\* A particle placed anywhere, in a store of either mode
InitPlaced ==
    /\ app = "phys"
    /\ steps = 0
    /\ \/ \E position \in PlacedPositions, velocity \in PlacedVelocities :
            phys = [ q |-> [DriftParticle(0, 0) EXCEPT !.position = position,
                                                      !.velocity = velocity],
                     e |-> InitialGlobals, frames |-> 0, cfg |-> DefaultConfig ]
       \/ \E position \in PlacedNear, mass \in PlacedMasses :
            phys = [ q |-> [DrawnOutParticle EXCEPT !.position = position,
                                                   !.velocity = Zero3,
                                                   !.mass = mass],
                     e |-> InitialGlobals, frames |-> 0,
                     cfg |-> [DefaultConfig EXCEPT !.mode = "galaxy"] ]
    /\ config = Idle
    /\ particles = Idle
    /\ blackHole = FALSE
    /\ accretionDisk = FALSE
    /\ scene = Idle
    /\ builds = 0
    /\ fault = "none"
    /\ cloud = Idle
    /\ pointer = Idle
    /\ gen = Idle
    /\ fps = Idle
    /\ audio = Idle
    /\ game = Idle

SpecPlaced == InitPlaced /\ [][NextPhys]_vars

\* The update functions of the three modes together
InitUpdate == InitPhys \/ InitCloud

NextUpdate == NextPhys \/ NextCloud

SpecUpdate == InitUpdate /\ [][NextUpdate]_vars

------------------------------------------------------------------------------
(* Claims about the per-frame updates *)

Finite3(v) == IsFinite(v[1]) /\ IsFinite(v[2]) /\ IsFinite(v[3])

\* Every component of every attribute a mode keeps for the particle q
AttributesFinite(q) ==
    /\ Finite3(q.position)
    /\ Finite3(q.velocity)
    /\ Finite3(q.color)
    /\ IsFinite(q.size)
    /\ "acceleration" \in DOMAIN q => Finite3(q.acceleration)
    /\ "mass" \in DOMAIN q => IsFinite(q.mass)
    /\ "opacity" \in DOMAIN q => IsFinite(q.opacity)

\* C1: after any sequence of frames in particle, galaxy or emitter mode, with
\* any pointer, audio and delta inputs, every component of every particle
\* attribute is finite: neither NaN nor an infinity.
C1_AttributesFinite ==
    /\ app = "phys" => AttributesFinite(phys.q)
    /\ app = "cloud" => \A i \in 1..CloudCount : AttributesFinite(Particle(cloud, i))

C12_CloudWithinBounds ==
    app \in {"cloud", "chase"}
        => \A i \in 1..CloudCount : Length(cloud.positions[i]) <= 50 * Scale

Dot(a, b) == a[1] * b[1] + a[2] * b[2] + a[3] * b[3]

GalaxyFrame == \E point \in WorldPoints : UpdateGalaxyPhysics(point)

CloudFrame == app = "cloud" /\ pointer' = pointer /\ cloud'.time > cloud.time

\* Distance of particle i of c from the world point of the pointer
ToPointer(c, i) == Length(VSub(pointer.mouseTarget.v, c.positions[i]))

\* Particle i is alive in the frame, between 1 and influenceRadius - 5 from
\* the pointer's world point, and the pointer acts
Pushed(i) ==
    /\ pointer.mouseDown \/ pointer.isContinuousMode
    /\ pointer.mouseTarget.finite
    /\ cloud.options.turbulence = 0
    /\ ~IsDead([cloud EXCEPT !.time = cloud'.time], i)
    /\ ToPointer(cloud, i) >= Scale
    /\ ToPointer(cloud, i) <= TDiv(20 * pointer.cameraZ, 30) - 5 * Scale

\* What the frame adds to the square of the distance between particle i and
\* the pointer's world point, in ticks^2: |d + s|^2 - |d|^2 for the offset d
\* from the point and the step s of the frame
DistanceGain(i) ==
    LET d == VSub(cloud.positions[i], pointer.mouseTarget.v)
        s == VSub(cloud'.positions[i], cloud.positions[i])
    IN  2 * Dot(d, s) + Dot(s, s)

Motion(q) ==
    IF "acceleration" \in DOMAIN q THEN <<q.velocity, q.acceleration>> ELSE <<q.velocity>>

\* The velocity and the acceleration a frame of main.js leaves the particle
\* with when the pointer is at pos (drift mode) or projects to point (galaxy
\* mode), everything else as in the frame taken
MotionAfter(in, pos, point) ==
    LET e == [phys.e EXCEPT !.mouseX = pos[1], !.mouseY = pos[2]]
        r == IF phys.cfg.mode = "particle"
             THEN ParticleEffects(phys.q, e, phys.cfg, in.level, in.now, in.draws)
             ELSE GalaxyPhysics(phys.q, e, phys.cfg,
                                [ finite |-> e.windowHalfX # 0 /\ e.windowHalfY # 0,
                                  v |-> point ])
    IN  Motion(r)

\* C15: in a frame with the mouse button up (main.js has no continuous mode)
\* the position of the pointer has no effect on the motion: wherever the
\* pointer is, the frame leaves the particle with the same velocity and the
\* same acceleration.
C15_PointerOnlyWhenDown ==
    [][ ~phys.e.mouseDown =>
          \A in \in FrameInputs, point \in WorldPoints :
             UpdateParticleEffects(in) \/ UpdateGalaxyPhysics(point)
             => \A pos \in MousePositions, other \in WorldPoints :
                   Motion(phys'.q) = MotionAfter(in, pos, other) ]_vars

\* const delta = 0.016 of animate() in the page with the spaceship mode, in ms
FixedDelta == 16

\* C16: every delta the animation loop passes to the simulation lies between
\* 0 and 0.05 s: the time of the emitter cloud advances by at most 50 ms in a
\* step, however long the clock says the frame before is ago, and the page
\* with the spaceship mode passes the fixed 0.016 s.
C16_DeltaClamped ==
    [][ /\ app = "cloud" => cloud'.time - cloud.time \in 0..50
        /\ FixedDelta \in 0..50 ]_vars

\* The first frame has advanced the time by the whole 0.05 s
C16_Witness == app = "cloud" /\ steps = 1 /\ cloud.time = 50

\* A run of createGalaxySystem() at load, up to the called-th generator, with
\* the draws of seed
RECURSIVE RunAtLoad(_, _, _)
RunAtLoad(cfg, seed, called) ==
    IF called = 0
    THEN [ arrays |-> [ store |-> [k \in 1..cfg.particleCount |-> BlankParticle],
                        seed  |-> seed,
                        rng   |-> 0 ],
           index  |-> 0 ]
    ELSE CHOOSE r \in { Generate(Populations[called], before.arrays, cfg, before.index,
                                 GalaxyCounts(cfg.particleCount)[Populations[called]])
                        : before \in {RunAtLoad(cfg, seed, called - 1)} } : TRUE

QuietDriftFrame(in) == UpdateParticleEffects(in) /\ ~phys.e.isAudioActive

\* C18 as stated: while the audio is inactive the size a frame of the drift
\* mode writes is derived from the configured particle size only, so it is the
\* same whatever else the frame draws.
C18_SizeFromParticleSizeOnly ==
    [][ \A in \in FrameInputs :
          QuietDriftFrame(in) =>
             \A other \in FrameInputs :
                ParticleEffects(phys.q, phys.e, phys.cfg, other.level, other.now,
                                other.draws).size = phys'.q.size ]_vars

\* Levels of the analyser a frame is compared under
QuietLevels == {128, 255}

\* C18: while the audio is inactive (never enabled, refused, or disabled
\* again) a frame uses base values.  In the drift mode the frame is the one a
\* silent input with audioReactivity 0 gives: no impulse enters the velocity,
\* the color is kept, and the size is the configured particle size times a
\* drawn factor between 0.8 and 1.2.  In the emitter mode the frame is the
\* same for every level of the analyser and the audio level is left alone.
\* isAudioActive is never true without an analyser and a dataArray.
C18_AudioOffBaseValues ==
    [][ /\ \A in \in FrameInputs :
             QuietDriftFrame(in) =>
                /\ phys'.q = ParticleEffects(phys.q, phys.e,
                                             [phys.cfg EXCEPT !.audioReactivity = 0],
                                             0, in.now, in.draws)
                /\ phys'.q.color = phys.q.color
                /\ phys'.q.size >= phys.cfg.particleSize * 8000
                /\ phys'.q.size <= phys.cfg.particleSize * 12000
        /\ ( /\ app = "cloud"
             /\ ~pointer.audioConnected
             /\ pointer' = pointer
             /\ cloud'.options = cloud.options
             /\ CloudAnimate(cloud'.time - cloud.time, 0) )
           => /\ \A level \in QuietLevels :
                    cloud' = update(cloud, pointer, cloud'.time - cloud.time, level)
              /\ cloud'.audioLevel = cloud.audioLevel
        /\ app = "phys" => (phys.e.isAudioActive => phys.e.analyser) ]_vars

\* The audio was enabled and disabled again (or refused), and frames of the
\* drift mode have run since the load
C18_Witness ==
    /\ app = "phys"
    /\ phys.cfg.mode = "particle"
    /\ phys.e.analyser
    /\ ~phys.e.isAudioActive
    /\ phys.frames >= 2
    /\ phys.q.size >= phys.cfg.particleSize * 8000

-----------------------------------------------------------------------------
(* FirstPersonControls.js: the pointer and key handlers *)

\* event.button of a pointer event: main, auxiliary, secondary
Buttons == {0, 1, 2}

\* event.code of the key events the handlers are explored with
KeyCodes == {"KeyW", "ArrowUp", "KeyA", "KeyS", "KeyD", "Space"}

OnControls == app = "controls" /\ Tick
              /\ UNCHANGED <<app, mainVars, cloudVars, phys, gen, audio, game>>

\* onPointerDown(event)
onPointerDown(c, button) ==
    [ c EXCEPT !._moveForward  = IF c.activeLook /\ button = 0 THEN TRUE ELSE @,
               !._moveBackward = IF c.activeLook /\ button = 2 THEN TRUE ELSE @,
               !.mouseDragOn   = TRUE ]

\* onPointerUp(event)
onPointerUp(c, button) ==
    [ c EXCEPT !._moveForward  = IF c.activeLook /\ button = 0 THEN FALSE ELSE @,
               !._moveBackward = IF c.activeLook /\ button = 2 THEN FALSE ELSE @,
               !.mouseDragOn   = FALSE ]

\* onKeyDown(event) and onKeyUp(event): the flag of event.code becomes down
onKey(c, code, down) ==
    CASE code \in {"ArrowUp", "KeyW"}    -> [c EXCEPT !._moveForward = down]
      [] code \in {"ArrowLeft", "KeyA"}  -> [c EXCEPT !._moveLeft = down]
      [] code \in {"ArrowDown", "KeyS"}  -> [c EXCEPT !._moveBackward = down]
      [] code \in {"ArrowRight", "KeyD"} -> [c EXCEPT !._moveRight = down]
      [] OTHER -> c

\* window width 2 gives handleResize's _viewHalfX = 1
ViewHalfX == 1

\* clientX of a 'pointermove' event
ClientXs == {0, 1, 2}

\* onPointerMove with domElement === document: _pointerX = clientX - _viewHalfX
onPointerMove(c, clientX) == [c EXCEPT !._pointerX = clientX - ViewHalfX]

\* connect(element): one addEventListener per event type, each with its own
\* bound handler; a listener is the pair <<type, handler>>
connect(listeners) ==
    listeners \cup { <<"keydown", "_onKeyDown">>, <<"keyup", "_onKeyUp">>,
                     <<"pointermove", "_onPointerMove">>,
                     <<"pointerdown", "_onPointerDown">>,
                     <<"pointerup", "_onPointerUp">>,
                     <<"contextmenu", "_onContextMenu">> }

\* disconnect(): removeEventListener removes a listener only when both the type
\* and the handler match; the pairs are the ones the code passes
disconnect(listeners) ==
    listeners \ { <<"keydown", "_onKeyDown">>, <<"keyup", "_onKeyUp">>,
                  <<"pointerdown", "_onPointerMove">>,
                  <<"pointermove", "_onPointerDown">>,
                  <<"pointerup", "_onPointerUp">>,
                  <<"contextmenu", "_onContextMenu">> }

\* The bound handler of that name applied to an event
Handle(handler, c, arg) ==
    CASE handler = "_onPointerDown" -> onPointerDown(c, arg)
      [] handler = "_onPointerUp"   -> onPointerUp(c, arg)
      [] handler = "_onPointerMove" -> onPointerMove(c, arg)
      [] handler = "_onKeyDown"     -> onKey(c, arg, TRUE)
      [] handler = "_onKeyUp"       -> onKey(c, arg, FALSE)
      [] OTHER                      -> c

\* The browser delivers an event of a type to the listener attached for it
Dispatch(f, type, arg) ==
    LET attached == { l \in f.listeners : l[1] = type }
    IN  IF attached = {} THEN f.controls
        ELSE Handle((CHOOSE l \in attached : TRUE)[2], f.controls, arg)

\* 'pointerdown': a button that is not held goes down
PointerDown(button) ==
    /\ OnControls
    /\ button \notin fps.pressed
    /\ fps' = [fps EXCEPT !.controls = Dispatch(fps, "pointerdown", button),
                          !.pressed  = @ \cup {button}]

\* 'pointerup': a button that is held is released
PointerUp(button) ==
    /\ OnControls
    /\ button \in fps.pressed
    /\ fps' = [fps EXCEPT !.controls = Dispatch(fps, "pointerup", button),
                          !.pressed  = @ \ {button}]

\* 'pointermove'
PointerMove(clientX) ==
    /\ OnControls
    /\ fps' = [fps EXCEPT !.controls = Dispatch(fps, "pointermove", clientX)]

\* 'keydown'
KeyDown(code) ==
    /\ OnControls
    /\ fps' = [fps EXCEPT !.controls = Dispatch(fps, "keydown", code)]

\* 'keyup'
KeyUp(code) ==
    /\ OnControls
    /\ fps' = [fps EXCEPT !.controls = Dispatch(fps, "keyup", code)]

\* The page calls controls.disconnect() (dispose() does the same)
Disconnect ==
    /\ OnControls
    /\ fps.connected
    /\ fps' = [fps EXCEPT !.listeners = disconnect(@), !.connected = FALSE]

\* The page calls controls.connect(document) again
Connect ==
    /\ OnControls
    /\ ~fps.connected
    /\ fps' = [fps EXCEPT !.listeners = connect(@), !.connected = TRUE]

\* The page sets the public property activeLook
SetActiveLook(value) ==
    /\ OnControls
    /\ fps.controls.activeLook # value
    /\ fps' = [fps EXCEPT !.controls.activeLook = value]

NextControls ==
    \/ \E button \in Buttons : PointerDown(button)
    \/ \E button \in Buttons : PointerUp(button)
    \/ \E code \in KeyCodes : KeyDown(code)
    \/ \E code \in KeyCodes : KeyUp(code)
    \/ \E value \in BOOLEAN : SetActiveLook(value)
    \/ \E clientX \in ClientXs : PointerMove(clientX)
    \/ Disconnect
    \/ Connect

\* new FirstPersonControls(object, domElement): the constructor calls
\* connect(domElement); no button held
InitControls ==
    /\ app = "controls"
    /\ steps = 0
    /\ fps = [ controls |-> [ activeLook |-> TRUE, mouseDragOn |-> FALSE,
                              _moveForward |-> FALSE, _moveBackward |-> FALSE,
                              _moveLeft |-> FALSE, _moveRight |-> FALSE,
                              _pointerX |-> 0 ],
               pressed   |-> {},
               listeners |-> connect({}),
               connected |-> TRUE ]
    /\ config = Idle
    /\ particles = Idle
    /\ blackHole = FALSE
    /\ accretionDisk = FALSE
    /\ scene = Idle
    /\ builds = 0
    /\ fault = "none"
    /\ cloud = Idle
    /\ pointer = Idle
    /\ phys = Idle
    /\ gen = Idle
    /\ audio = Idle
    /\ game = Idle

SpecControls == InitControls /\ [][NextControls]_vars

\* C19: after any sequence of pointerdown and pointerup events, overlapping
\* presses of two buttons included, mouseDragOn is true exactly when at least
\* one pointer button is held.
C19_DragOnWhileHeld ==
    app = "controls" => (fps.controls.mouseDragOn <=> fps.pressed # {})

\* What damping, the speed limit and the containment alone make of the
\* velocity of q in a frame
Coasting(q, cfg) ==
    Containment(cfg, SafePosition(q), LimitVelocity(Accelerate(q, cfg, Zero3)))

\* C20: in galaxy mode, in a frame with enableGravity false and the mouse up
\* the acceleration of the particle is (0, 0, 0) afterwards and the velocity
\* is what damping, the speed limit and the containment make of it; the
\* gravity checkbox leaves the particles as they are, and a frame with
\* enableGravity true and the mouse up leaves the acceleration of gravity.
C20_NoGravityNoAcceleration ==
    [][ /\ ( GalaxyFrame /\ ~phys.e.mouseDown /\ ~phys.cfg.galaxySettings.enableGravity )
           => /\ phys'.q.acceleration = Zero3
              /\ phys'.q.velocity = Coasting(phys.q, phys.cfg)
        /\ PhysGravityToggle => phys'.q = phys.q
        /\ ( GalaxyFrame /\ ~phys.e.mouseDown /\ phys.cfg.galaxySettings.enableGravity )
           => phys'.q.acceleration = GravityForce(phys.q, phys.cfg, SafePosition(phys.q))
      ]_vars

\* A particle that gravity has set in motion coasts after the gravity was
\* switched off: its acceleration is zero again, its velocity is not
C20_Witness ==
    /\ app = "phys"
    /\ phys.cfg.mode = "galaxy"
    /\ ~phys.cfg.galaxySettings.enableGravity
    /\ ~phys.e.mouseDown
    /\ phys.frames >= 2
    /\ phys.q.acceleration = Zero3
    /\ phys.q.velocity # Zero3
    /\ phys.q.mass = 1500

\* The attributes a generator assigns and the physics only reads
Assigned(q) == <<q.particleType, q.mass, q.color, q.size>>

\* C21: updateGalaxyPhysics() never changes the particleType, mass, color or
\* size of a particle: no step in galaxy mode short of a rebuild changes
\* them, so after any number of frames they are the values of the generation.
C21_AssignedKept ==
    [][ app = "phys" /\ phys.cfg.mode = "galaxy" => Assigned(phys'.q) = Assigned(phys.q) ]_vars

\* A particle createNebulaClouds() has skipped, of mass 0 and type 0, after
\* two frames
C21_Witness ==
    /\ app = "phys"
    /\ phys.cfg.mode = "galaxy"
    /\ phys.frames >= 2
    /\ phys.q.mass = 0
    /\ phys.q.particleType = 0

\* C22: after any sequence of setMouseMode and setInteractivity calls the sign
\* of interactiveForce matches the mouse mode selected last: negative while
\* the toggle shows Repel, not negative while it shows Attract.
C22_SignMatchesMouseMode ==
    app = "cloud" =>
        IF pointer.isAttractMode THEN cloud.options.interactiveForce >= 0
                                 ELSE cloud.options.interactiveForce < 0

\* The population the slice of index k (from 1) belongs to, from 0 (core) to
\* 4 (dust)
RECURSIVE PopulationOf(_, _, _)
PopulationOf(counts, k, p) ==
    IF p = Len(Populations) \/ k <= counts[Populations[p]]
    THEN p - 1
    ELSE PopulationOf(counts, k - counts[Populations[p]], p + 1)

\* C23: after createGalaxySystem(), for every particle count, every index of
\* every slice has been populated: its particleType is the population of the
\* slice (0 core, 1 arm, 2 halo, 3 nebula, 4 dust) and its mass is above 0.
C23_EverySlicePopulated ==
    app = "gen" /\ gen.called = Len(Populations) =>
        \A k \in 1..gen.config.particleCount :
            /\ gen.arrays.store[k].particleType = PopulationOf(gen.counts, k, 1)
            /\ gen.arrays.store[k].mass > 0

\* C24: after any sequence of builds, parameter changes, resets and mode
\* switches the scene holds exactly one black hole mesh and one accretion
\* disk while the mode is 'galaxy', and none of either while it is
\* 'particle'.
C24_OneBlackHole ==
    app = "main" =>
        IF config.mode = "galaxy"
        THEN scene.blackHoles = 1 /\ scene.disks = 1
        ELSE scene.blackHoles = 0 /\ scene.disks = 0

-----------------------------------------------------------------------------
(* main.js: the audio button and the getUserMedia() requests it starts *)

\* getUserMedia() requests explored
MaxRequests == 5

OnAudio == app = "audio"
           /\ UNCHANGED <<app, steps, mainVars, cloudVars, phys, gen, fps, game>>

\* audioButton 'click': the first click creates audioContext, analyser and
\* dataArray; while isAudioActive is false a stream is asked for, otherwise
\* the source the global audioSource refers to is disconnected
AudioClick ==
    /\ OnAudio
    /\ IF ~audio.isAudioActive
       THEN /\ audio.requests < MaxRequests
            /\ audio' = [audio EXCEPT !.audioContext = TRUE,
                                      !.requests = @ + 1,
                                      !.pending = @ + 1]
       ELSE audio' = [audio EXCEPT !.audioContext = TRUE,
                                   !.connected = @ \ {audio.audioSource},
                                   !.isAudioActive = FALSE]

\* getUserMedia(...).then(function(stream) ...): a new source is created,
\* assigned to audioSource and connected to the analyser
StreamGranted ==
    /\ OnAudio
    /\ audio.pending > 0
    /\ LET source == audio.sources + 1
       IN  audio' = [audio EXCEPT !.pending = @ - 1,
                                  !.sources = source,
                                  !.audioSource = source,
                                  !.connected = @ \cup {source},
                                  !.isAudioActive = TRUE]

\* getUserMedia(...).catch(function(err) ...): an alert, nothing is assigned
StreamDenied ==
    /\ OnAudio
    /\ audio.pending > 0
    /\ audio' = [audio EXCEPT !.pending = @ - 1]

NextAudio ==
    \/ AudioClick
    \/ StreamGranted
    \/ StreamDenied

\* setupAudio(): no context, no source (audioSource 0), audio inactive
InitAudio ==
    /\ app = "audio"
    /\ steps = 0
    /\ audio = [ audioContext |-> FALSE, isAudioActive |-> FALSE, audioSource |-> 0,
                 requests |-> 0, pending |-> 0, sources |-> 0, connected |-> {} ]
    /\ config = Idle
    /\ particles = Idle
    /\ blackHole = FALSE
    /\ accretionDisk = FALSE
    /\ scene = Idle
    /\ builds = 0
    /\ fault = "none"
    /\ cloud = Idle
    /\ pointer = Idle
    /\ phys = Idle
    /\ gen = Idle
    /\ fps = Idle
    /\ game = Idle

SpecAudio == InitAudio /\ [][NextAudio]_vars

\* C25: under any interleaving of clicks on the audio button with the
\* resolutions of getUserMedia(), at most one microphone source is connected
\* to the analyser at a time, and none while isAudioActive is false.
C25_OneSourceConnected ==
    app = "audio" =>
        /\ Cardinality(audio.connected) <= 1
        /\ ~audio.isAudioActive => audio.connected = {}

-----------------------------------------------------------------------------
(* The page with the spaceship mode: the game of lasers and aliens *)

\* config.spaceship.alienCount and config.spaceship.laserCooldown (ms)
AlienCount == 20
LaserCooldown == 500

\* Date.now() at load, in ms, and the time explored after it
StartTime == 1000
MaxTime == 2400

\* Times that pass between two events, in ms
TimeSteps == {400, 2000}

\* createAliens(): the old aliens are removed, alienCount new ones created
createAliens(g) == [g EXCEPT !.aliens = AlienCount]

\* createNewAlien(): one more alien unless the spaceship mode is off
createNewAlien(g) ==
    IF ~g.isSpaceshipMode THEN g ELSE [g EXCEPT !.aliens = @ + 1]

\* toggleSpaceshipMode()
toggleSpaceshipMode(g) ==
    IF ~g.isSpaceshipMode
    THEN LET on == [g EXCEPT !.isSpaceshipMode = TRUE, !.score = 0]
         IN  IF on.aliens = 0 THEN createAliens(on) ELSE on
    ELSE [g EXCEPT !.isSpaceshipMode = FALSE, !.lasers = 0]

\* gameOver = false; score = 0; aliens = []; createAliens(), of the restart
\* button and of the Space key
restart(g) == createAliens([g EXCEPT !.gameOver = FALSE, !.score = 0])

\* onKeyDown(event) for event.code 'Space'; removed says whether the query
\* for the game over screen has found it
onKeyDown(g, removed) ==
    IF ~g.isSpaceshipMode THEN g
    ELSE IF ~g.gameOver
    THEN LET cooldown == 300
         IN  IF g.now - g.lastShotTimestamp > cooldown
             THEN [g EXCEPT !.lasers = @ + 1,
                            !.shotGap = IF g.lastShotTimestamp = 0 THEN 0
                                        ELSE g.now - g.lastShotTimestamp,
                            !.lastShotTimestamp = g.now]
             ELSE g
    ELSE [restart(g) EXCEPT !.screen = IF removed THEN FALSE ELSE @]

\* updateLasersAndAliens(deltaTime): nothing when the game is over; a laser
\* hits an alien (hit), a laser has gone too far (gone), an alien has come
\* nearer than 2 to the player (reached)
updateLasersAndAliens(g, hit, gone, reached) ==
    IF g.gameOver THEN g
    ELSE LET g1 == IF hit /\ g.lasers > 0 /\ g.aliens > 0
                   THEN [g EXCEPT !.aliens = @ - 1,
                                  !.lasers = @ - 1,
                                  !.timers = Append(@, g.now + 2000),
                                  !.score  = @ + 10]
                   ELSE g
             g2 == IF gone /\ g1.lasers > 0 THEN [g1 EXCEPT !.lasers = @ - 1] ELSE g1
         IN  IF reached /\ g2.aliens > 0
             THEN [g2 EXCEPT !.gameOver = TRUE, !.screen = TRUE]
             ELSE g2

\* A timer of setTimeout(createNewAlien, 2000) is due
TimerDue == \E k \in 1..Len(game.timers) : game.timers[k] <= game.now

\* Events are handled in the order of their times: none while a timer is due
OnGame == app = "game" /\ ~TimerDue
          /\ UNCHANGED <<app, steps, mainVars, cloudVars, phys, gen, fps, audio>>

\* Time passes
Pass(dt) ==
    /\ OnGame
    /\ game.now + dt <= StartTime + MaxTime
    /\ game' = [game EXCEPT !.now = @ + dt]

\* The timer that is due fires: createNewAlien()
RespawnTimer ==
    /\ app = "game"
    /\ TimerDue
    /\ game' = [createNewAlien(game) EXCEPT !.timers = Tail(@)]
    /\ UNCHANGED <<app, steps, mainVars, cloudVars, phys, gen, fps, audio>>

\* spaceshipButton 'click', not under the game over screen
SpaceshipButtonClick ==
    /\ OnGame
    /\ ~game.screen
    /\ game' = toggleSpaceshipMode(game)

\* exitButton 'click' of the game over screen
ExitButtonClick ==
    /\ OnGame
    /\ game.screen
    /\ game' = [toggleSpaceshipMode(game) EXCEPT !.screen = FALSE]

\* restartButton 'click' of the game over screen
RestartButtonClick ==
    /\ OnGame
    /\ game.screen
    /\ game' = [restart(game) EXCEPT !.screen = FALSE]

\* 'keydown' of Space: both listeners of document call onKeyDown(event)
SpaceKeyDown(removed) ==
    /\ OnGame
    /\ game' = onKeyDown(onKeyDown(game, removed), removed)

\* animate() in spaceship mode
GameFrame(hit, gone, reached) ==
    /\ OnGame
    /\ game.isSpaceshipMode
    /\ game' = updateLasersAndAliens(game, hit, gone, reached)

NextGame ==
    \/ \E dt \in TimeSteps : Pass(dt)
    \/ RespawnTimer
    \/ SpaceshipButtonClick
    \/ ExitButtonClick
    \/ RestartButtonClick
    \/ \E removed \in BOOLEAN : SpaceKeyDown(removed)
    \/ \E hit, gone, reached \in BOOLEAN : GameFrame(hit, gone, reached)

\* The globals at load: exploration mode, no aliens, no shot yet
\* (lastShotTimestamp || 0)
InitGame ==
    /\ app = "game"
    /\ steps = 0
    /\ game = [ isSpaceshipMode |-> FALSE, gameOver |-> FALSE, score |-> 0,
                aliens |-> 0, lasers |-> 0, timers |-> <<>>,
                lastShotTimestamp |-> 0, shotGap |-> 0, now |-> StartTime,
                screen |-> FALSE ]
    /\ config = Idle
    /\ particles = Idle
    /\ blackHole = FALSE
    /\ accretionDisk = FALSE
    /\ scene = Idle
    /\ builds = 0
    /\ fault = "none"
    /\ cloud = Idle
    /\ pointer = Idle
    /\ phys = Idle
    /\ gen = Idle
    /\ fps = Idle
    /\ audio = Idle

SpecGame == InitGame /\ [][NextGame]_vars

\* C26: the number of aliens in the scene never exceeds
\* config.spaceship.alienCount, under any interleaving of kills, the respawn
\* timers they start, restarts and toggles of the spaceship mode.
C26_AliensAtMostAlienCount ==
    app = "game" => game.aliens <= AlienCount

\* toggleSpaceshipMode() has turned the spaceship mode on
TurnedOn == app = "game" /\ ~game.isSpaceshipMode /\ game'.isSpaceshipMode

\* C27: every time toggleSpaceshipMode() turns the spaceship mode on a running
\* game starts: gameOver is false and the score is 0, also when the mode was
\* left from the game over screen and is entered again.
C27_ModeOnStartsGame ==
    [][ TurnedOn => ~game'.gameOver /\ game'.score = 0 ]_vars

\* C28: two lasers are never fired less than config.spaceship.laserCooldown
\* (500 ms) apart, whatever the sequence and the times of the Space keydown
\* events.
C28_ShotsCooldownApart ==
    app = "game" => (game.shotGap = 0 \/ game.shotGap >= LaserCooldown)

\* The fields the reset assigns in both modes
ResetFields ==
    {"colorScheme", "speed", "rotationSpeed", "interactionStrength", "audioReactivity"}

\* C29: 'Reset to Defaults' returns every configuration value it assigns to
\* the value the field had at start-up, in particle mode (particleCount,
\* particleSize, ...) and in galaxy mode (all of galaxySettings, ...).
C29_ResetRestoresStartup ==
    [][ ResetClick =>
          /\ \A f \in ResetFields : config'[f] = DefaultConfig[f]
          /\ config'.glow.size = DefaultConfig.glow.size
          /\ IF config.mode = "particle"
             THEN /\ config'.particleCount = DefaultConfig.particleCount
                  /\ config'.particleSize = DefaultConfig.particleSize
             ELSE config'.galaxySettings = DefaultConfig.galaxySettings ]_vars

\* What the events of FirstPersonControls write: the movement flags, mouseDragOn
\* and the pointer position
EventState(c) ==
    << c._moveForward, c._moveBackward, c._moveLeft, c._moveRight,
       c.mouseDragOn, c._pointerX >>

\* C30: after disconnect() (or dispose()) no listener of connect() is attached:
\* as long as the controls stay disconnected, no pointer or key event changes
\* the movement flags, mouseDragOn or the pointer position
C30_DisconnectedIgnoresEvents ==
    [][ (app = "controls" /\ ~fps.connected /\ ~fps'.connected)
            => (fps.listeners = {}
                /\ EventState(fps'.controls) = EventState(fps.controls)) ]_vars

====
